---- MODULE Spec2Model ----
(***************************************************************************)
(* Model of the DM / Dameng database engine adapters                       *)
(*   src/sql/engines/dm.py      (DmEngine)                                 *)
(*   src/sql/engines/dameng.py  (DamengEngine)                             *)
(*                                                                         *)
(* An engine instance owns one nullable connection field (self.conn).      *)
(* The backend driver (dmPython) is the environment: every driver call     *)
(* (connect, cursor, execute, description, fetchall, rowcount, close)      *)
(* either succeeds or raises, chosen nondeterministically by the scenario  *)
(* that is an input of each operation.                                     *)
(*                                                                         *)
(* SQL text is a sequence of atoms (words, ";" and " "); messages are      *)
(* sequences of message parts, the empty sequence being the empty string.  *)
(* Python's None for an optional string is the empty tuple, a present      *)
(* string s is the one-element tuple <<s>>.                                *)
(***************************************************************************)
EXTENDS Integers, Sequences, FiniteSets, TLC

VARIABLES engine, conn, live, handles, connects, calls, ret

vars == <<engine, conn, live, handles, connects, calls, ret>>

(***************************************************************************)
(* Bounds of the model                                                     *)
(***************************************************************************)
\* number of operations called on one engine instance in one behaviour
MaxCalls == 3
\* longest SQL block (in atoms) handed to execute
MaxLen == 4

(***************************************************************************)
(* Values                                                                  *)
(***************************************************************************)
NoConn == 0

None == <<>>
Some(x) == <<x>>
IsNone(o) == o = <<>>
\* Python truthiness of an optional string: None and "" are falsy
Truthy(o) == o # <<>> /\ o[1] # <<>>

\* the text of a backend exception: empty, or some text
Boom == <<"boom">>
BackendMsgs == {<<>>, Boom}

Engines == {"Dm", "Dameng"}

(***************************************************************************)
(* Text helpers (str.strip, str.endswith, slicing)                         *)
(***************************************************************************)
IsSpace(a) == a = " "

RECURSIVE LStrip(_)
LStrip(s) == IF s # <<>> /\ IsSpace(Head(s)) THEN LStrip(Tail(s)) ELSE s

RECURSIVE RStrip(_)
RStrip(s) ==
    IF s # <<>> /\ IsSpace(s[Len(s)]) THEN RStrip(SubSeq(s, 1, Len(s) - 1)) ELSE s

Strip(s) == RStrip(LStrip(s))

EndsWith(s, a) == s # <<>> /\ s[Len(s)] = a

RECURSIVE SeqsUpTo(_, _)
SeqsUpTo(S, n) ==
    IF n = 0 THEN {<<>>}
    ELSE LET shorter == SeqsUpTo(S, n - 1)
         IN  shorter \cup {Append(s, a) : s \in {t \in shorter : Len(t) = n - 1}, a \in S}

(***************************************************************************)
(* Connection manager                                                      *)
(*                                                                         *)
(* A world w is the engine's connection field together with the backend's  *)
(* bookkeeping:                                                            *)
(*   conn      self.conn: a handle, or NoConn for None                     *)
(*   live      handles opened by connect and not yet closed                *)
(*   handles   number of handles connect has returned so far               *)
(*   connects  number of invocations of the connect primitive              *)
(* An operation returns a record with the world it leaves, whether it      *)
(* raised, the raised exception's class and text, and its value.           *)
(***************************************************************************)
World == [conn |-> conn, live |-> live, handles |-> handles, connects |-> connects]

\* dmPython.connect: either raises dmPython.Error or returns a fresh handle
BackendConnect(w, outcome) ==
    IF outcome = "raise"
    THEN [w |-> [w EXCEPT !.connects = @ + 1], ok |-> FALSE, h |-> NoConn]
    ELSE LET h == w.handles + 1
         IN  [w  |-> [w EXCEPT !.connects = @ + 1, !.handles = h,
                               !.live = @ \cup {h}],
              ok |-> TRUE, h |-> h]

\* connection.close(): closes the handle, or raises; when it raises the
\* handle may or may not have been closed by the driver
BackendClose(w, h, outcome) ==
    IF outcome = "raise_open" THEN w ELSE [w EXCEPT !.live = @ \ {h}]

\* get_connection that connects again although a connection is held
DmGetConnection_NoReuse(w, outcome, msg) ==
    LET c == BackendConnect(w, outcome)
    IN  IF c.ok
        THEN [w |-> [c.w EXCEPT !.conn = c.h], raised |-> FALSE,
              kind |-> "", msg |-> <<>>, val |-> c.h]
        ELSE [w |-> [c.w EXCEPT !.conn = NoConn], raised |-> TRUE,
              kind |-> "dmPython.Error", msg |-> msg, val |-> NoConn]

\* DmEngine.get_connection
DmGetConnection(w, outcome, msg) ==
    IF w.conn # NoConn
    THEN [w |-> w, raised |-> FALSE, kind |-> "", msg |-> <<>>, val |-> w.conn]
    ELSE LET c == BackendConnect(w, outcome)
         IN  IF c.ok
             THEN [w |-> [c.w EXCEPT !.conn = c.h], raised |-> FALSE,
                   kind |-> "", msg |-> <<>>, val |-> c.h]
             ELSE [w |-> [c.w EXCEPT !.conn = NoConn], raised |-> TRUE,
                   kind |-> "dmPython.Error", msg |-> msg, val |-> NoConn]

\* get_connection that leaves a handle in self.conn when connect failed
DamengGetConnection_HalfInit(w, outcome, msg) ==
    IF w.conn # NoConn
    THEN [w |-> w, raised |-> FALSE, kind |-> "", msg |-> <<>>, val |-> w.conn]
    ELSE LET c == BackendConnect(w, outcome)
         IN  IF c.ok
             THEN [w |-> [c.w EXCEPT !.conn = c.h], raised |-> FALSE,
                   kind |-> "", msg |-> <<>>, val |-> c.h]
             ELSE [w |-> [c.w EXCEPT !.conn = c.w.handles + 1], raised |-> TRUE,
                   kind |-> "Exception",
                   msg |-> <<"Dameng connection failed: ">> \o msg, val |-> NoConn]

\* DamengEngine.get_connection
DamengGetConnection(w, outcome, msg) ==
    IF w.conn # NoConn
    THEN [w |-> w, raised |-> FALSE, kind |-> "", msg |-> <<>>, val |-> w.conn]
    ELSE LET c == BackendConnect(w, outcome)
         IN  IF c.ok
             THEN [w |-> [c.w EXCEPT !.conn = c.h], raised |-> FALSE,
                   kind |-> "", msg |-> <<>>, val |-> c.h]
             ELSE [w |-> c.w, raised |-> TRUE, kind |-> "Exception",
                   msg |-> <<"Dameng connection failed: ">> \o msg, val |-> NoConn]

GetConnection(eng, w, outcome, msg) ==
    IF eng = "Dm" THEN DmGetConnection(w, outcome, msg)
    ELSE DamengGetConnection(w, outcome, msg)

\* a finally block that clears self.conn without closing the handle
DmQueryRelease_NoClose(w, current_conn, close_conn, closeOut) ==
    IF current_conn # NoConn /\ close_conn
    THEN [w EXCEPT !.conn = NoConn]
    ELSE w

\* the finally block of query as it would be if it closed the connection
\* whatever close_conn says
DmQueryRelease_AlwaysClose(w, current_conn, close_conn, closeOut) ==
    IF closeOut = "ok"
    THEN [BackendClose(w, current_conn, closeOut) EXCEPT
            !.conn = IF current_conn = w.conn THEN NoConn ELSE @]
    ELSE BackendClose(w, current_conn, closeOut)

\* the finally block of DmEngine.query: close the connection when asked to;
\* an exception of close() is swallowed, and skips clearing self.conn
DmQueryRelease(w, current_conn, close_conn, closeOut) ==
    IF current_conn # NoConn /\ close_conn
    THEN LET c == BackendClose(w, current_conn, closeOut)
         IN  IF closeOut = "ok"
             THEN [c EXCEPT !.conn = IF current_conn = w.conn THEN NoConn ELSE @]
             ELSE c
    ELSE w

(***************************************************************************)
(* Pagination policy: DmEngine.filter_sql                                  *)
(*                                                                         *)
(* The regular expression of filter_sql is searched in the text with       *)
(* re.IGNORECASE and without word boundaries: a keyword matches as the     *)
(* tail of an atom, the number that follows as the head of an atom.        *)
(***************************************************************************)
\* largest number written as an atom
MaxNum == 2
NumAtom(n) == ToString(n)
DigitAtoms == {NumAtom(n) : n \in 0..MaxNum}

\* the keywords an atom ends with, compared without case
KeywordTail(a) ==
    CASE a \in {"LIMIT", "limit", "xLIMIT"} -> "LIMIT"
      [] a \in {"TOP", "top", "STOP"}       -> "TOP"
      [] a \in {"ROWNUM", "rownum"}         -> "ROWNUM"
      [] a \in {"FETCH", "fetch"}           -> "FETCH"
      [] OTHER                              -> ""

\* the atom as a whole, compared without case
KeywordWhole(a) ==
    CASE a \in {"FIRST", "first"} -> "FIRST"
      [] a \in {"ROWS", "rows"}   -> "ROWS"
      [] a \in {"ONLY", "only"}   -> "ONLY"
      [] OTHER                    -> ""

StartsWithDigit(a) == a \in DigitAtoms
AllDigits(a) == a \in DigitAtoms

\* index of the first atom at or after i that is not whitespace
RECURSIVE SkipSpaces(_, _)
SkipSpaces(s, i) ==
    IF i <= Len(s) /\ IsSpace(s[i]) THEN SkipSpaces(s, i + 1) ELSE i

\* \s+ from i: the index after the whitespace, 0 when there is none
Spaces1(s, i) ==
    IF i <= Len(s) /\ IsSpace(s[i]) THEN SkipSpaces(s, i) ELSE 0

\* KW\s+\d+ with the keyword ending at atom i
MatchKwNum(s, i, kw) ==
    /\ KeywordTail(s[i]) = kw
    /\ LET j == Spaces1(s, i + 1)
       IN  j # 0 /\ j <= Len(s) /\ StartsWithDigit(s[j])

\* ROWNUM\s*(<|<=)\s*\d+
MatchRownum(s, i) ==
    /\ KeywordTail(s[i]) = "ROWNUM"
    /\ LET j == SkipSpaces(s, i + 1)
       IN  /\ j <= Len(s) /\ s[j] \in {"<", "<="}
           /\ LET k == SkipSpaces(s, j + 1)
              IN  k <= Len(s) /\ StartsWithDigit(s[k])

\* FETCH\s+FIRST\s+\d+\s+ROWS\s+ONLY
MatchFetchFirst(s, i) ==
    /\ KeywordTail(s[i]) = "FETCH"
    /\ LET a == Spaces1(s, i + 1)
       IN  /\ a # 0 /\ a <= Len(s) /\ KeywordWhole(s[a]) = "FIRST"
           /\ LET b == Spaces1(s, a + 1)
              IN  /\ b # 0 /\ b <= Len(s) /\ AllDigits(s[b])
                  /\ LET c == Spaces1(s, b + 1)
                     IN  /\ c # 0 /\ c <= Len(s) /\ KeywordWhole(s[c]) = "ROWS"
                         /\ LET d == Spaces1(s, c + 1)
                            IN  d # 0 /\ d <= Len(s) /\ KeywordWhole(s[d]) = "ONLY"

\* re.search(limit_pattern, sql_to_check, re.IGNORECASE)
HasLimit(s) ==
    \E i \in 1..Len(s) :
        \/ MatchKwNum(s, i, "LIMIT")
        \/ MatchKwNum(s, i, "TOP")
        \/ MatchRownum(s, i)
        \/ MatchFetchFirst(s, i)

FetchFirstClause(n) ==
    <<" ", "FETCH", " ", "FIRST", " ", NumAtom(n), " ", "ROWS", " ", "ONLY">>

\* DmEngine.filter_sql
DmFilterSql(sql, limit_num) ==
    LET sql_original == Strip(sql)
        sql_to_check ==
            IF EndsWith(sql_original, ";")
            THEN Strip(SubSeq(sql_original, 1, Len(sql_original) - 1))
            ELSE sql_original
    IN  IF limit_num > 0 /\ ~HasLimit(sql_to_check)
        THEN sql_to_check \o FetchFirstClause(limit_num)
        ELSE sql_original

\* sql.lower().startswith("select")
StartsWithSelect(s) == s # <<>> /\ s[1] \in {"select", "SELECT"}

\* "limit" in sql.lower()
ContainsLimitWord(s) == \E i \in 1..Len(s) : s[i] \in {"LIMIT", "limit", "xLIMIT"}

\* DamengEngine.filter_sql
DamengFilterSql(sql, limit_num) ==
    LET stripped == Strip(sql)
    IN  IF StartsWithSelect(stripped) /\ limit_num > 0 /\ ~ContainsLimitWord(stripped)
        THEN stripped \o <<" ", "LIMIT", " ", NumAtom(limit_num)>>
        ELSE stripped

FilterSql(eng, sql, limit_num) ==
    IF eng = "Dm" THEN DmFilterSql(sql, limit_num) ELSE DamengFilterSql(sql, limit_num)

(***************************************************************************)
(* Query executor                                                          *)
(*                                                                         *)
(* A scenario sc fixes what the backend does during one call:              *)
(*   connect   "ok" | "raise"          dmPython.connect                    *)
(*   cursor    "ok" | "raise"          connection.cursor()                 *)
(*   execute   "ok" | "raise"          cursor.execute(sql)                 *)
(*   desc      "none" | "cols" | "raise"   cursor.description              *)
(*   fetch     "empty" | "rows" | "raise"  cursor.fetchall()               *)
(*   rcKind    "int" | "raise", rcVal      cursor.rowcount                 *)
(*   curClose  "ok" | "raise"          cursor.close()                      *)
(*   connClose "ok" | "raise_open" | "raise_closed"  connection.close()    *)
(*   msg       the text of the exception the backend raises                *)
(***************************************************************************)
Cols == <<"c1">>
Rows == <<<<"v1">>, <<"v2">>>>

BlankResult == [column_list |-> <<>>, rows |-> <<>>, effect_row |-> 0, error |-> None]

\* a handle that was closed cannot open a cursor
CursorOpens(w, h, sc) == sc.cursor = "ok" /\ h \in w.live

\* cursor.fetchall() on a statement whose answer is table
FetchAll(sc, table) == IF sc.fetch = "rows" THEN table ELSE <<>>

\* the try block of DmEngine.query once the connection is acquired, on a
\* backend whose answer to the statement is table: the result dict it
\* leaves and whether a cursor was opened
DmQueryTryOn(w, h, actual_sql, sc, table) ==
    LET curOk  == CursorOpens(w, h, sc)
        exOk   == curOk /\ sc.execute = "ok"
        descOk == exOk /\ sc.desc # "raise"
        column_list == IF descOk /\ sc.desc = "cols" THEN Cols ELSE <<>>
        rows   == IF descOk THEN FetchAll(sc, table) ELSE <<>>
        rcOk   == descOk /\ sc.rcKind # "raise"
        effect_row ==
            IF rcOk /\ sc.rcVal >= 0 THEN sc.rcVal
            ELSE IF rcOk /\ rows # <<>> THEN Len(rows)
            ELSE 0
    IN  [res |-> [column_list |-> column_list, rows |-> rows,
                  effect_row |-> effect_row,
                  error |-> IF rcOk THEN None ELSE Some(<<"Error: ">> \o sc.msg)],
         cursor |-> curOk,
         sent |-> IF curOk THEN <<actual_sql>> ELSE <<>>]

DmQueryTry(w, h, actual_sql, sc) == DmQueryTryOn(w, h, actual_sql, sc, Rows)

\* DmEngine.query on a backend whose answer to the statement is table
DmQueryOn(w, sql, limit_num, close_conn, sc, table) ==
    LET gc == DmGetConnection(w, sc.connect, sc.msg)
    IN  IF gc.raised
        THEN [w |-> gc.w, raised |-> FALSE, kind |-> "", msg |-> <<>>,
              res |-> [BlankResult EXCEPT !.error = Some(<<"Error: ">> \o gc.msg)],
              sent |-> <<>>, curOpened |-> 0, curClosed |-> 0,
              acquired |-> NoConn, closeCalls |-> 0]
        ELSE IF gc.val = NoConn
        THEN [w |-> gc.w, raised |-> FALSE, kind |-> "", msg |-> <<>>,
              res |-> [BlankResult EXCEPT
                         !.error = Some(<<"Failed to establish database connection.">>)],
              sent |-> <<>>, curOpened |-> 0, curClosed |-> 0,
              acquired |-> NoConn, closeCalls |-> 0]
        ELSE LET t == DmQueryTryOn(gc.w, gc.val, DmFilterSql(sql, limit_num), sc, table)
             IN  [w |-> DmQueryRelease(gc.w, gc.val, close_conn, sc.connClose),
                  raised |-> FALSE, kind |-> "", msg |-> <<>>,
                  res |-> t.res, sent |-> t.sent,
                  curOpened |-> IF t.cursor THEN 1 ELSE 0,
                  curClosed |-> IF t.cursor THEN 1 ELSE 0,
                  acquired |-> gc.val,
                  closeCalls |-> IF close_conn THEN 1 ELSE 0]

\* DmEngine.query
DmQuery(w, sql, limit_num, close_conn, sc) ==
    DmQueryOn(w, sql, limit_num, close_conn, sc, Rows)

\* the try block of DamengEngine.query once the connection is acquired
DamengQueryTry(w, h, sql, sc) ==
    LET curOk  == CursorOpens(w, h, sc)
        exOk   == curOk /\ sc.execute = "ok"
        descOk == exOk /\ sc.desc # "raise"
        hasDesc == descOk /\ sc.desc = "cols"
        fetchOk == hasDesc /\ sc.fetch # "raise"
        rows   == IF fetchOk /\ sc.fetch = "rows" THEN Rows ELSE <<>>
        rcOk   == descOk /\ (hasDesc => fetchOk) /\ sc.rcKind # "raise"
        affected_rows ==
            IF ~rcOk THEN 0
            ELSE IF hasDesc /\ sc.rcVal = -1 THEN Len(rows)
            ELSE sc.rcVal
    IN  [res |-> [column_list |-> IF hasDesc THEN Cols ELSE <<>>,
                  rows |-> rows, effect_row |-> affected_rows,
                  error |-> IF rcOk THEN None
                            ELSE Some(<<"Dameng query failed: ">> \o sc.msg)],
         cursor |-> curOk,
         sent |-> IF curOk THEN <<sql>> ELSE <<>>]

\* the finally block of DamengEngine.query; an exception of cursor.close()
\* or of connection.close() leaves the block and reaches the caller
DamengQueryFinally(w, cursor, close_conn, sc) ==
    IF close_conn /\ w.conn # NoConn
    THEN IF cursor /\ sc.curClose = "raise"
         THEN [w |-> w, raised |-> TRUE, curClosed |-> 1, closeCalls |-> 0]
         ELSE LET c == BackendClose(w, w.conn, sc.connClose)
              IN  IF sc.connClose = "ok"
                  THEN [w |-> [c EXCEPT !.conn = NoConn], raised |-> FALSE,
                        curClosed |-> IF cursor THEN 1 ELSE 0, closeCalls |-> 1]
                  ELSE [w |-> c, raised |-> TRUE,
                        curClosed |-> IF cursor THEN 1 ELSE 0, closeCalls |-> 1]
    ELSE [w |-> w, raised |-> FALSE, curClosed |-> 0, closeCalls |-> 0]

\* DamengEngine.query
DamengQuery(w, sql, limit_num, close_conn, sc) ==
    LET gc == DamengGetConnection(w, sc.connect, sc.msg)
    IN  IF gc.raised
        THEN [w |-> gc.w, raised |-> TRUE, kind |-> gc.kind, msg |-> gc.msg,
              res |-> BlankResult, sent |-> <<>>, curOpened |-> 0, curClosed |-> 0,
              acquired |-> NoConn, closeCalls |-> 0]
        ELSE LET t == DamengQueryTry(gc.w, gc.val, sql, sc)
                 f == DamengQueryFinally(gc.w, t.cursor, close_conn, sc)
             IN  [w |-> f.w, raised |-> f.raised,
                  kind |-> IF f.raised THEN "dmPython.Error" ELSE "",
                  msg |-> IF f.raised THEN sc.msg ELSE <<>>,
                  res |-> IF f.raised THEN BlankResult ELSE t.res,
                  sent |-> t.sent,
                  curOpened |-> IF t.cursor THEN 1 ELSE 0,
                  curClosed |-> f.curClosed,
                  acquired |-> gc.val, closeCalls |-> f.closeCalls]

Query(eng, w, sql, limit_num, close_conn, sc) ==
    IF eng = "Dm" THEN DmQuery(w, sql, limit_num, close_conn, sc)
    ELSE DamengQuery(w, sql, limit_num, close_conn, sc)

(***************************************************************************)
(* Statement batch executor: DmEngine.execute                              *)
(*                                                                         *)
(* The scenario of one execute call:                                       *)
(*   connect   "ok" | "raise"                                              *)
(*   outs      one record per statement, what the backend does with it:    *)
(*             cursor, execute, rcKind, rcVal, close and msg as for query  *)
(*   connClose "ok" | "raise_open" | "raise_closed"                        *)
(*   msg       the text of the exception of connect or of close            *)
(***************************************************************************)
IsBlank(s) == Strip(s) = <<>>

\* sqlparse.split: a statement ends with its ";"; what follows the last ";"
\* is a statement unless it is whitespace; every statement is stripped
RECURSIVE SplitPieces(_, _)
SplitPieces(s, cur) ==
    IF s = <<>> THEN (IF IsBlank(cur) THEN <<>> ELSE <<cur>>)
    ELSE IF Head(s) = ";"
         THEN <<Append(cur, ";")>> \o SplitPieces(Tail(s), <<>>)
         ELSE SplitPieces(Tail(s), Append(cur, Head(s)))

SqlparseSplit(sql) ==
    LET pieces == SplitPieces(sql, <<>>)
    IN  [i \in 1..Len(pieces) |-> Strip(pieces[i])]

NotEmptyText(s) == s # <<>>

\* execute that runs the block as one statement, without splitting it
Statements_NoSplit(sql) ==
    IF Strip(sql) # <<>> THEN <<Strip(sql)>> ELSE <<>>

\* the statements execute attempts: the split block, each statement
\* stripped, the empty ones skipped
Statements(sql) ==
    LET split == SqlparseSplit(sql)
        statements ==
            IF split = <<>>
            THEN (IF Strip(sql) # <<>> THEN <<sql>> ELSE <<>>)
            ELSE split
        stripped == [i \in 1..Len(statements) |-> Strip(statements[i])]
    IN  SelectSeq(stripped, NotEmptyText)

BlankReview == [full_sql |-> <<>>, rows |-> <<>>, error_count |-> 0, error |-> None]

\* the steps of one statement that succeeded
StmtCursorOk(w, h, so) == so.cursor = "ok" /\ h \in w.live
StmtExecOk(w, h, so)   == StmtCursorOk(w, h, so) /\ so.execute = "ok"
StmtCountOk(w, h, so)  == StmtExecOk(w, h, so) /\ so.rcKind # "raise"
StmtOk(w, h, so)       == StmtCountOk(w, h, so) /\ so.close = "ok"

\* body of the statement loop of DmEngine.execute: the ReviewResult of
\* statement number idx
DmExecuteStatement(w, h, idx, statement_sql, so) ==
    LET ok == StmtOk(w, h, so)
    IN  [id            |-> idx,
         sql           |-> statement_sql,
         affected_rows |-> IF StmtCountOk(w, h, so) /\ so.rcVal >= 0
                           THEN so.rcVal ELSE 0,
         errlevel      |-> IF ok THEN 0 ELSE 2,
         stagestatus   |-> IF ok THEN "Execute Successfully" ELSE "Execute Failed",
         errormessage  |-> IF ok THEN <<>> ELSE so.msg]

\* a statement loop that stops after the first failing statement
DmExecuteLoop_ShortCircuit(w, h, statements, outs) ==
    LET failing == {i \in 1..Len(statements) : ~StmtOk(w, h, outs[i])}
        last == IF failing = {} THEN Len(statements)
                ELSE CHOOSE i \in failing : \A j \in failing : i <= j
    IN  [i \in 1..last |-> DmExecuteStatement(w, h, i, statements[i], outs[i])]

\* a statement loop that runs the statements last to first
DmExecuteLoop_Reversed(w, h, statements, outs) ==
    LET n == Len(statements)
    IN  [i \in 1..n |->
            DmExecuteStatement(w, h, i, statements[n + 1 - i], outs[n + 1 - i])]

\* the statement loop: every statement is attempted, in order
DmExecuteLoop(w, h, statements, outs) ==
    [i \in 1..Len(statements) |-> DmExecuteStatement(w, h, i, statements[i], outs[i])]

IsErrorRow(r) == r.errlevel = 2
ErrorRows(rows) == Len(SelectSeq(rows, IsErrorRow))

\* a record of a block that could not be run, reported as a warning
FailedBlockRow_Warning(sql, text) ==
    [id |-> 1, sql |-> sql, affected_rows |-> 0, errlevel |-> 1,
     stagestatus |-> "Execute Failed", errormessage |-> text]

\* the single ReviewResult of a block that could not be run
FailedBlockRow(sql, text) ==
    [id |-> 1, sql |-> sql, affected_rows |-> 0, errlevel |-> 2,
     stagestatus |-> "Execute Failed", errormessage |-> text]

\* the finally block of DmEngine.execute
DmExecuteRelease(w, review, h, close_conn, closeOut, msg) ==
    IF h # NoConn /\ close_conn
    THEN LET c == BackendClose(w, h, closeOut)
         IN  IF closeOut = "ok"
             THEN [w |-> [c EXCEPT !.conn = IF h = w.conn THEN NoConn ELSE @],
                   review |-> review]
             ELSE [w |-> c,
                   review |->
                       IF ~Truthy(review.error)
                       THEN [review EXCEPT
                               !.error = Some(msg),
                               !.error_count = IF @ = 0 THEN 1 ELSE @]
                       ELSE review]
    ELSE [w |-> w, review |-> review]

\* DmEngine.execute
DmExecute(w, sql, close_conn, sc) ==
    LET gc == DmGetConnection(w, sc.connect, sc.msg)
        result == [BlankReview EXCEPT !.full_sql = sql]
    IN  IF gc.raised
        THEN [w |-> gc.w, raised |-> FALSE,
              review |-> [result EXCEPT !.error = Some(gc.msg), !.error_count = 1,
                                        !.rows = <<FailedBlockRow(sql, gc.msg)>>],
              sent |-> <<>>, curOpened |-> 0, curClosed |-> 0,
              acquired |-> NoConn, closeCalls |-> 0]
        ELSE IF gc.val = NoConn
        THEN LET text == <<"Failed to establish database connection.">>
             IN  [w |-> gc.w, raised |-> FALSE,
                  review |-> [result EXCEPT !.error = Some(text), !.error_count = 1,
                                            !.rows = <<FailedBlockRow(sql, text)>>],
                  sent |-> <<>>, curOpened |-> 0, curClosed |-> 0,
                  acquired |-> NoConn, closeCalls |-> 0]
        ELSE LET statements == Statements(sql)
                 n    == Len(statements)
                 rows == DmExecuteLoop(gc.w, gc.val, statements, sc.outs)
                 done == [result EXCEPT !.rows = rows, !.error_count = ErrorRows(rows)]
                 rel  == DmExecuteRelease(gc.w, done, gc.val, close_conn,
                                          sc.connClose, sc.msg)
                 opened == {i \in 1..n : StmtCursorOk(gc.w, gc.val, sc.outs[i])}
                 closed == {i \in 1..n : StmtCountOk(gc.w, gc.val, sc.outs[i])}
             IN  [w |-> rel.w, raised |-> FALSE, review |-> rel.review,
                  sent |-> [k \in 1..Cardinality(opened) |->
                               statements[CHOOSE i \in opened :
                                   Cardinality({j \in opened : j <= i}) = k]],
                  curOpened |-> Cardinality(opened),
                  curClosed |-> Cardinality(closed),
                  acquired |-> gc.val,
                  closeCalls |-> IF close_conn THEN 1 ELSE 0]

\* DamengEngine.execute: a stub returning an empty ReviewSet
DamengExecute(w, sql, close_conn, sc) ==
    [w |-> w, raised |-> FALSE, review |-> BlankReview,
     sent |-> <<>>, curOpened |-> 0, curClosed |-> 0,
     acquired |-> NoConn, closeCalls |-> 0]

Execute(eng, w, sql, close_conn, sc) ==
    IF eng = "Dm" THEN DmExecute(w, sql, close_conn, sc)
    ELSE DamengExecute(w, sql, close_conn, sc)

(***************************************************************************)
(* Syntax pre-check and single-query introspection                         *)
(***************************************************************************)
\* query_check as it would be if a failing cursor.close() went unnoticed
DmQueryCheck_IgnoresClose(w, sql, sc) ==
    LET gc == DmGetConnection(w, sc.connect, sc.msg)
        curOk == ~gc.raised /\ gc.val # NoConn /\ CursorOpens(gc.w, gc.val, sc)
        error_message ==
            IF gc.raised THEN Some(<<"Syntax check failed: ">> \o gc.msg)
            ELSE IF ~curOk THEN Some(<<"Syntax check failed: ">> \o sc.msg)
            ELSE None
    IN  [w |-> gc.w, raised |-> FALSE, kind |-> "", msg |-> <<>>,
         res |-> [status |-> IF Truthy(error_message) THEN 1 ELSE 0,
                  msg    |-> IF Truthy(error_message) THEN error_message[1]
                             ELSE <<"Syntax check successful.">>,
                  error  |-> error_message],
         sent |-> <<>>,
         curOpened |-> IF curOk THEN 1 ELSE 0,
         curClosed |-> IF curOk THEN 1 ELSE 0,
         acquired |-> gc.val, closeCalls |-> 0]

\* DmEngine.query_check: acquire a connection, open and close a cursor;
\* the statement is not sent
DmQueryCheck(w, sql, sc) ==
    LET gc == DmGetConnection(w, sc.connect, sc.msg)
        curOk == ~gc.raised /\ gc.val # NoConn /\ CursorOpens(gc.w, gc.val, sc)
        closeOk == curOk /\ sc.curClose = "ok"
        error_message ==
            IF gc.raised THEN Some(<<"Syntax check failed: ">> \o gc.msg)
            ELSE IF gc.val = NoConn
            THEN Some(<<"Syntax check failed: Could not establish connection.">>)
            ELSE IF ~closeOk THEN Some(<<"Syntax check failed: ">> \o sc.msg)
            ELSE None
    IN  [w |-> gc.w, raised |-> FALSE, kind |-> "", msg |-> <<>>,
         res |-> [status |-> IF Truthy(error_message) THEN 1 ELSE 0,
                  msg    |-> IF Truthy(error_message) THEN error_message[1]
                             ELSE <<"Syntax check successful.">>,
                  error  |-> IF Truthy(error_message) THEN error_message ELSE None],
         sent |-> <<>>,
         curOpened |-> IF curOk THEN 1 ELSE 0,
         curClosed |-> IF curOk THEN 1 ELSE 0,
         acquired |-> gc.val, closeCalls |-> 0]

\* the ReviewResult execute_check appends when the pre-check failed
\* (stagestatus is the platform's text for "SQL review not passed")
CheckFailedRow(sql, text) ==
    [id |-> 1, sql |-> sql, affected_rows |-> 0, errlevel |-> 2,
     stagestatus |-> "SQL review not passed", errormessage |-> text]

\* execute_check as it would be if it counted the failure without a record
DmExecuteCheck_NoRecord(w, sql, sc) ==
    LET check_result == DmQueryCheck(w, sql, sc)
    IN  check_result @@
        [review |-> [BlankReview EXCEPT
                       !.full_sql = sql,
                       !.error_count = IF check_result.res.status = 1 THEN 1 ELSE 0]]

\* DmEngine.execute_check
DmExecuteCheck(w, sql, sc) ==
    LET check_result == DmQueryCheck(w, sql, sc)
        review_set == [BlankReview EXCEPT !.full_sql = sql]
    IN  check_result @@
        [review |-> IF check_result.res.status = 1
                    THEN [review_set EXCEPT
                            !.error_count = 1,
                            !.rows = <<CheckFailedRow(sql, check_result.res.msg)>>]
                    ELSE [review_set EXCEPT !.error_count = 0]]

\* the catalog statement of get_all_databases
SchemasSql == <<"SELECT NAME FROM SYSOBJECTS WHERE TYPE$ = 'SCH'", ";">>

\* [row[0] for row in rows if row and row[0]]
RowHasName(row) == row # <<>> /\ row[1] # ""
FirstColumn(rows) ==
    LET kept == SelectSeq(rows, RowHasName)
    IN  [i \in 1..Len(kept) |-> kept[i][1]]

\* DmEngine.get_all_databases
DmGetAllDatabases(w, sc) ==
    LET q == DmQuery(w, SchemasSql, 0, TRUE, sc)
        error_msg == q.res.error
    IN  [q EXCEPT !.res = [error |-> error_msg,
                           data  |-> IF ~Truthy(error_msg) /\ q.res.rows # <<>>
                                     THEN FirstColumn(q.res.rows) ELSE <<>>]]

\* name.replace("'", "''"): every quote character of a name is doubled
RECURSIVE SafeName(_)
SafeName(name) ==
    IF name = <<>> THEN <<>>
    ELSE (IF Head(name) = "'" THEN <<"'", "'">> ELSE <<Head(name)>>)
             \o SafeName(Tail(name))

\* '{safe_name}' in a catalog statement
Quoted(safe_name) == <<"'">> \o safe_name \o <<"'">>

\* the catalog statements of get_all_tables, get_all_columns_by_tb,
\* describe_table, get_table_index_data and get_table_meta_data; a name is
\* a sequence of characters
AllTablesSql(db_name) ==
    <<"SELECT O.NAME FROM SYSOBJECTS O ... AND S.NAME = ">>
        \o Quoted(SafeName(db_name)) \o <<";">>
AllColumnsSql(db_name, tb_name) ==
    <<"SELECT C.NAME FROM SYSCOLUMNS C ... WHERE T.NAME = ">>
        \o Quoted(SafeName(tb_name)) \o <<" AND S.NAME = ">>
        \o Quoted(SafeName(db_name)) \o <<" ... ORDER BY C.COLID", ";">>
DescribeSql(db_name, tb_name) ==
    <<"SELECT C.NAME, C.TYPE$ FROM SYSCOLUMNS C ... WHERE T.NAME = ">>
        \o Quoted(SafeName(tb_name)) \o <<" AND S.NAME = ">>
        \o Quoted(SafeName(db_name)) \o <<" ... ORDER BY C.COLID", ";">>
IndexesSql(db_name, tb_name) ==
    <<"SELECT ... AS COLUMN_NAME, SI.NAME AS INDEX_NAME ... AND T.NAME = ">>
        \o Quoted(SafeName(tb_name)) \o <<" ... WHERE ST.NAME = ">>
        \o Quoted(SafeName(db_name)) \o <<" ... ORDER BY SI.NAME, IC.POS$", ";">>
TableInfoSql(db_name, tb_name) ==
    <<"SELECT T.NAME AS TABLE_NAME ... T.ID AS TABLE_ID ... AND S.NAME = ">>
        \o Quoted(SafeName(db_name)) \o <<" AND T.NAME = ">>
        \o Quoted(SafeName(tb_name)) \o <<";">>

\* DmEngine.get_all_tables on a backend whose answer is table
DmGetAllTables(w, db_name, sc, table) ==
    LET q == DmQueryOn(w, AllTablesSql(db_name), 0, TRUE, sc, table)
        error_msg == q.res.error
    IN  [q EXCEPT !.res = [error |-> error_msg,
                           data  |-> IF ~Truthy(error_msg) /\ q.res.rows # <<>>
                                     THEN FirstColumn(q.res.rows) ELSE <<>>]]

\* DmEngine.get_all_columns_by_tb on a backend whose answer is table
DmGetAllColumnsByTb(w, db_name, tb_name, sc, table) ==
    LET q == DmQueryOn(w, AllColumnsSql(db_name, tb_name), 0, TRUE, sc, table)
        error_msg == q.res.error
    IN  [q EXCEPT !.res = [error |-> error_msg,
                           data  |-> IF ~Truthy(error_msg) /\ q.res.rows # <<>>
                                     THEN FirstColumn(q.res.rows) ELSE <<>>]]

\* [{'name': row[0], 'type': row[1], 'comment': ''}
\*  for row in rows if row and len(row) >= 2]
RowHasType(row) == row # <<>> /\ Len(row) >= 2
Description(rows) ==
    LET kept == SelectSeq(rows, RowHasType)
    IN  [i \in 1..Len(kept) |->
            [name |-> kept[i][1], type |-> kept[i][2], comment |-> ""]]

\* describe_table as it would be if it described whatever rows the query
\* left, without looking at the error
DmDescribeTable_KeepRows(w, db_name, tb_name, sc, table) ==
    LET q == DmQueryOn(w, DescribeSql(db_name, tb_name), 0, TRUE, sc, table)
    IN  [q EXCEPT !.res = [error |-> q.res.error, data |-> Description(q.res.rows)]]

\* DmEngine.describe_table on a backend whose answer is table
DmDescribeTable(w, db_name, tb_name, sc, table) ==
    LET q == DmQueryOn(w, DescribeSql(db_name, tb_name), 0, TRUE, sc, table)
        error_msg == q.res.error
    IN  [q EXCEPT !.res = [error |-> error_msg,
                           data  |-> IF ~Truthy(error_msg) /\ q.res.rows # <<>>
                                     THEN Description(q.res.rows) ELSE <<>>]]

IndexColumnList ==
    <<"COLUMN_NAME", "INDEX_NAME", "NON_UNIQUE", "SEQ_IN_INDEX", "CARDINALITY",
      "IS_NULLABLE_COLUMN", "INDEX_TYPE", "INDEX_COMMENT">>

\* dict(zip(keys, values)) as the sequence of its items
Zip(keys, values) ==
    [i \in 1..(IF Len(keys) < Len(values) THEN Len(keys) ELSE Len(values)) |->
        <<keys[i], values[i]>>]

\* DmEngine.get_table_index_data on a backend whose answer is table
DmGetTableIndexData(w, db_name, tb_name, sc, table) ==
    LET q == DmQueryOn(w, IndexesSql(db_name, tb_name), 0, TRUE, sc, table)
    IN  IF Truthy(q.res.error)
        THEN [q EXCEPT !.res = [error |-> Some(<<"Error fetching index data: ">>
                                                   \o q.res.error[1]),
                                column_list |-> IndexColumnList, rows |-> <<>>]]
        ELSE [q EXCEPT !.res = [error |-> None, column_list |-> IndexColumnList,
                                rows |-> [i \in 1..Len(q.res.rows) |->
                                             Zip(IndexColumnList, q.res.rows[i])]]]

(***************************************************************************)
(* Multi-query introspection                                               *)
(*                                                                         *)
(* These calls issue several catalog queries through DmEngine.query with   *)
(* close_conn = False and release the connection with the engine's close.  *)
(* scs is the sequence of scenarios of the catalog queries, in the order   *)
(* of the positions the queries have in the call.  A catalog row is        *)
(* represented by its first column.  acc accumulates the world and what    *)
(* the queries issued so far did.                                          *)
(***************************************************************************)
\* the engine's close: the handle is closed and self.conn is cleared
EngineClose(w) ==
    IF w.conn # NoConn THEN [w EXCEPT !.live = @ \ {w.conn}, !.conn = NoConn] ELSE w

\* what the backend may do with one catalog query: return rows, return
\* nothing, or fail; the first query of a call may also fail to connect
CatalogOutcomes == {"rows", "empty", "fails", "no connection"}
CatalogScenario(o) ==
    [connect |-> IF o = "no connection" THEN "raise" ELSE "ok",
     cursor |-> "ok",
     execute |-> IF o = "fails" THEN "raise" ELSE "ok",
     desc |-> "cols",
     fetch |-> IF o = "empty" THEN "empty" ELSE "rows",
     rcKind |-> "int", rcVal |-> 1, curClose |-> "ok", connClose |-> "ok",
     msg |-> Boom]

ColumnsSql      == <<"SELECT C.NAME ... FROM SYSCOLUMNS C ... ORDER BY C.COLID", ";">>
CommentSql      == <<"SELECT NOTES FROM SYSCOMMENTS WHERE ID = ... AND MINOR_CLASS = ...", ";">>
TablesSql       == <<"SELECT T.NAME AS TABLE_NAME, T.ID AS TABLE_ID ... ORDER BY T.NAME", ";">>
TableColumnsSql == <<"SELECT C.NAME AS COLUMN_NAME ... WHERE C.ID = ... ORDER BY C.COLID", ";">>

CatalogStart(w) ==
    [w |-> w, sent |-> <<>>, curOpened |-> 0, curClosed |-> 0,
     queries |-> 0, queryErrors |-> 0]

\* the accumulator after the catalog query that returned q
CatalogTrack(acc, q) ==
    [w |-> q.w, sent |-> acc.sent \o q.sent,
     curOpened |-> acc.curOpened + q.curOpened,
     curClosed |-> acc.curClosed + q.curClosed,
     queries |-> acc.queries + 1,
     queryErrors |-> acc.queryErrors + (IF q.res.error # None THEN 1 ELSE 0)]

\* comment_result['rows'][0][0] when the comment query returned a note
CommentOf(q) ==
    IF q.res.rows # <<>> /\ q.res.rows[1] # <<>> /\ q.res.rows[1][1] # ""
    THEN Some(q.res.rows[1][1]) ELSE None

\* what a multi-query call hands back
CatalogReturn(acc, first, res, closes) ==
    [w |-> acc.w, raised |-> FALSE, kind |-> "", msg |-> <<>>, res |-> res,
     sent |-> acc.sent, curOpened |-> acc.curOpened, curClosed |-> acc.curClosed,
     acquired |-> first.acquired, closeCalls |-> closes,
     queries |-> acc.queries, queryErrors |-> acc.queryErrors]

DescColumnList == <<"COLUMN_NAME", "COLUMN_COMMENT">>

\* a local variable of a method: v is evaluated once and Body is applied to
\* its value
Bind(v, Body(_)) == CHOOSE r \in {Body(x) : x \in {v}} : TRUE

\* the loop of get_table_desc_data over the column rows: one comment query
\* per column, whose error is not looked at
RECURSIVE DmDescRows(_, _, _, _, _)
DmDescRows(acc, col_rows, scs, i, rows_data) ==
    IF i > Len(col_rows) THEN [acc |-> acc, rows |-> rows_data]
    ELSE Bind(DmQuery(acc.w, CommentSql, 0, FALSE, CatalogScenario(scs[1 + i])),
              LAMBDA comment_result :
                  DmDescRows(CatalogTrack(acc, comment_result), col_rows, scs, i + 1,
                             Append(rows_data,
                                    [COLUMN_NAME    |-> col_rows[i][1],
                                     COLUMN_COMMENT |-> CommentOf(comment_result)])))

\* what get_table_desc_data returns once the column query returned
DmTableDescResult(acc, columns_result, scs) ==
    IF Truthy(columns_result.res.error)
    THEN CatalogReturn([acc EXCEPT !.w = EngineClose(@)], columns_result,
             [error |-> Some(<<"Error fetching column descriptions: ">>
                                 \o columns_result.res.error[1]),
              column_list |-> DescColumnList, rows |-> <<>>], 1)
    ELSE IF columns_result.res.rows = <<>>
    THEN CatalogReturn([acc EXCEPT !.w = EngineClose(@)], columns_result,
             [error |-> None, column_list |-> DescColumnList, rows |-> <<>>], 1)
    ELSE Bind(DmDescRows(acc, columns_result.res.rows, scs, 1, <<>>),
              LAMBDA d :
                  CatalogReturn([d.acc EXCEPT !.w = EngineClose(@)], columns_result,
                      [error |-> None, column_list |-> DescColumnList,
                       rows |-> d.rows], 1))

\* DmEngine.get_table_desc_data
DmGetTableDescData(w, scs) ==
    Bind(DmQuery(w, ColumnsSql, 0, FALSE, CatalogScenario(scs[1])),
         LAMBDA columns_result :
             Bind(CatalogTrack(CatalogStart(w), columns_result),
                  LAMBDA acc : DmTableDescResult(acc, columns_result, scs)))

\* catalog queries get_tables_metas_data issues for one table: the table
\* comment, the columns, and one comment per column
PerTable == 2 + Len(Rows)

\* the loop of get_tables_metas_data over the columns of one table: one
\* comment query per column, whose error is not looked at
RECURSIVE DmMetaColumns(_, _, _, _, _, _)
DmMetaColumns(acc, col_rows, scs, base, c, columns_data) ==
    IF c > Len(col_rows) THEN [acc |-> acc, columns |-> columns_data]
    ELSE Bind(DmQuery(acc.w, CommentSql, 0, FALSE, CatalogScenario(scs[base + c])),
              LAMBDA col_comment_result :
                  DmMetaColumns(CatalogTrack(acc, col_comment_result), col_rows, scs,
                                base, c + 1,
                                Append(columns_data,
                                       [COLUMN_NAME    |-> col_rows[c][1],
                                        COLUMN_COMMENT |-> CommentOf(col_comment_result)])))

\* the columns of one table: none when the column query failed
DmMetaTableColumns(acc, columns_result, scs, base) ==
    IF Truthy(columns_result.res.error)
    THEN [acc |-> acc, columns |-> <<>>]
    ELSE DmMetaColumns(acc, columns_result.res.rows, scs, base + 2, 1, <<>>)

\* the body of the loop of get_tables_metas_data for one table: the
\* comment query, the column query, and the column comments
DmMetaTable(acc, table_row, scs, base) ==
    Bind(DmQuery(acc.w, CommentSql, 0, FALSE, CatalogScenario(scs[base + 1])),
         LAMBDA comment_result :
    Bind(CatalogTrack(acc, comment_result),
         LAMBDA acc2 :
    Bind(DmQuery(acc2.w, TableColumnsSql, 0, FALSE, CatalogScenario(scs[base + 2])),
         LAMBDA columns_result :
    Bind(DmMetaTableColumns(CatalogTrack(acc2, columns_result), columns_result,
                            scs, base),
         LAMBDA cols :
             [acc  |-> cols.acc,
              meta |-> [TABLE_NAME    |-> table_row[1],
                        TABLE_COMMENT |-> CommentOf(comment_result),
                        COLUMNS       |-> cols.columns]]))))

\* the loop of get_tables_metas_data over the tables: a failed column
\* query leaves the table with no columns and the loop goes on
RECURSIVE DmMetaTables(_, _, _, _, _)
DmMetaTables(acc, table_rows, scs, t, table_metas) ==
    IF t > Len(table_rows) THEN [acc |-> acc, data |-> table_metas]
    ELSE Bind(DmMetaTable(acc, table_rows[t], scs, 1 + (t - 1) * PerTable),
              LAMBDA m :
                  DmMetaTables(m.acc, table_rows, scs, t + 1,
                               Append(table_metas, m.meta)))

\* what get_tables_metas_data returns once the table query returned; its
\* finally block calls the engine's close on every path
DmTablesMetasResult(acc, tables_result, scs) ==
    IF Truthy(tables_result.res.error)
    THEN CatalogReturn([acc EXCEPT !.w = EngineClose(@)], tables_result,
             [error |-> Some(<<"Error fetching tables: ">>
                                 \o tables_result.res.error[1]),
              data |-> <<>>], 1)
    ELSE IF tables_result.res.rows = <<>>
    THEN CatalogReturn([acc EXCEPT !.w = EngineClose(@)], tables_result,
                       [error |-> None, data |-> <<>>], 1)
    ELSE Bind(DmMetaTables(acc, tables_result.res.rows, scs, 1, <<>>),
              LAMBDA m :
                  CatalogReturn([m.acc EXCEPT !.w = EngineClose(@)], tables_result,
                                [error |-> None, data |-> m.data], 1))

\* DmEngine.get_tables_metas_data
DmGetTablesMetasData(w, scs) ==
    Bind(DmQuery(w, TablesSql, 0, FALSE, CatalogScenario(scs[1])),
         LAMBDA tables_result :
             Bind(CatalogTrack(CatalogStart(w), tables_result),
                  LAMBDA acc : DmTablesMetasResult(acc, tables_result, scs)))

\* the answer of the backend to the table statement of get_table_meta_data:
\* TABLE_NAME, TABLE_SCHEMA, TABLE_TYPE, TABLE_ID, CREATE_TIME, IS_VALID
TableInfoRows == <<<<"t1", "s1", "BASE TABLE", "7", "2020-01-01", "1">>>>
\* an answer with fewer columns than the statement selects
ShortInfoRows == <<<<"t1">>>>

\* [None] * n
Nones(n) == [i \in 1..n |-> None]

\* what get_table_meta_data returns once the table query returned: the
\* two early returns leave the connection as the query left it, the except
\* block calls the engine's close, and the comment query closes the
\* connection itself
DmTableMetaResult(acc, table_info_result, scs) ==
    IF Truthy(table_info_result.res.error)
    THEN CatalogReturn(acc, table_info_result,
             [error |-> Some(<<"Error fetching table metadata: ">>
                                 \o table_info_result.res.error[1]),
              column_list |-> <<>>, rows |-> <<>>], 0)
    ELSE IF table_info_result.res.rows = <<>>
    THEN CatalogReturn(acc, table_info_result,
             [error |-> Some(<<"Table not found.">>),
              column_list |-> <<>>, rows |-> <<>>], 0)
    ELSE IF Len(table_info_result.res.rows[1]) < 4
    THEN CatalogReturn([acc EXCEPT !.w = EngineClose(@)], table_info_result,
             [error |-> Some(<<"Exception while fetching table metadata: ",
                               "tuple index out of range">>),
              column_list |-> <<>>, rows |-> <<>>], 1)
    ELSE Bind(DmQuery(acc.w, CommentSql, 0, TRUE, CatalogScenario(scs[2])),
              LAMBDA comment_result :
                  LET column_list == table_info_result.res.column_list
                                         \o <<"TABLE_COMMENT">>
                      table_info_row == table_info_result.res.rows[1]
                      row_data == [i \in 1..Len(table_info_row) |->
                                      Some(table_info_row[i])]
                                      \o <<CommentOf(comment_result)>>
                      padded == row_data
                                    \o (IF Len(column_list) > Len(row_data)
                                        THEN Nones(Len(column_list) - Len(row_data))
                                        ELSE <<>>)
                  IN  CatalogReturn(CatalogTrack(acc, comment_result),
                          table_info_result,
                          [error |-> None, column_list |-> column_list,
                           rows |-> <<Zip(column_list, padded)>>], 0))

\* DmEngine.get_table_meta_data on a backend whose answer to the table
\* statement is table
DmGetTableMetaData(w, db_name, tb_name, scs, table) ==
    Bind(DmQueryOn(w, TableInfoSql(db_name, tb_name), 0, FALSE,
                   CatalogScenario(scs[1]), table),
         LAMBDA table_info_result :
             Bind(CatalogTrack(CatalogStart(w), table_info_result),
                  LAMBDA acc : DmTableMetaResult(acc, table_info_result, scs)))

(***************************************************************************)
(* Placeholder operations                                                  *)
(*                                                                         *)
(* Operations DmEngine does not support log a warning and return.  A       *)
(* returned value is a record of its Python type and content.              *)
(***************************************************************************)
NotImplementedText == <<"Not implemented for DmEngine">>

\* ResultSet(full_sql=..., error="Not implemented for DmEngine")
NotImplemented(full_sql) ==
    [type |-> "ResultSet", full_sql |-> full_sql, rows |-> <<>>,
     error |-> Some(NotImplementedText)]

\* a value that is not a ResultSet
Plain(type, value) == [type |-> type, value |-> value]

DmEscapeString(value) == Plain("str", value)
DmAutoBackup == Plain("bool", FALSE)
DmSecondsBehindMaster == Plain("NoneType", None)
DmProcesslist(command_type) == NotImplemented(<<"show processlist">>)
DmKillConnection(thread_id) == NotImplemented(<<"kill ", NumAtom(thread_id)>>)
DmGetGroupTablesByDb(db_name) == Plain("dict", <<>>)
DmGetAllDatabasesSummary == NotImplemented(<<"show databases summary">>)
DmGetInstanceUsersSummary == NotImplemented(<<"show users summary">>)
DmCreateInstanceUser == NotImplemented(<<"create user">>)
DmDropInstanceUser == NotImplemented(<<"drop user">>)
DmResetInstanceUserPwd == NotImplemented(<<"alter user password">>)
DmQueryMasking(db_name, sql, resultset) == resultset
DmGetRollback(workflow) == Plain("list", <<>>)
DmGetExecutePercentage == Plain("NoneType", None)
DmGetVariables(variables) == NotImplemented(<<"show variables">>)
DmSetVariable(variable_name, variable_value) ==
    NotImplemented(<<"set variable ", variable_name>>)

(***************************************************************************)
(* Scenarios: what the backend may do during one call                      *)
(***************************************************************************)
RcVals == {-1, 0, 1}

DefaultScenario ==
    [connect |-> "ok", cursor |-> "ok", execute |-> "ok", desc |-> "cols",
     fetch |-> "rows", rcKind |-> "int", rcVal |-> 1, curClose |-> "ok",
     connClose |-> "ok", msg |-> Boom]

AllScenarios ==
    [connect : {"ok", "raise"}, cursor : {"ok", "raise"}, execute : {"ok", "raise"},
     desc : {"none", "cols", "raise"}, fetch : {"empty", "rows", "raise"},
     rcKind : {"int", "raise"}, rcVal : RcVals, curClose : {"ok", "raise"},
     connClose : {"ok", "raise_open", "raise_closed"}, msg : BackendMsgs]

\* what follows the first raise of the call does not happen: it keeps its
\* default
ScenarioIsNormal(sc) ==
    LET d == DefaultScenario
        noCursor == sc.connect = "raise" \/ sc.cursor = "raise"
        noExec   == noCursor \/ sc.execute = "raise"
        noDesc   == noExec \/ sc.desc = "raise"
        noCount  == noDesc \/ sc.rcKind = "raise"
        raises   == noCount \/ sc.fetch = "raise" \/ sc.curClose = "raise"
                    \/ sc.connClose # "ok"
    IN  /\ sc.connect = "raise" => sc.cursor = d.cursor /\ sc.connClose = d.connClose
        /\ noCursor => sc.execute = d.execute /\ sc.curClose = d.curClose
        /\ noExec => sc.desc = d.desc
        /\ noDesc => sc.fetch = d.fetch /\ sc.rcKind = d.rcKind
        /\ noCount => sc.rcVal = d.rcVal
        /\ ~raises => sc.msg = d.msg

QueryScenarios == {sc \in AllScenarios : ScenarioIsNormal(sc)}

\* the scenarios that differ in what happens to the connection and cursor
LifeScenarios ==
    {sc \in QueryScenarios :
        /\ sc.desc = "cols" /\ sc.fetch = "rows" /\ sc.rcKind = "int"
        /\ sc.rcVal = 1 /\ sc.msg = Boom}

\* what the backend may do with one statement of a block
StmtOutcome(cursor, execute, rcKind, rcVal, close, msg) ==
    [cursor |-> cursor, execute |-> execute, rcKind |-> rcKind, rcVal |-> rcVal,
     close |-> close, msg |-> msg]

StmtOutcomes ==
    {StmtOutcome("ok", "ok", "int", -1, "ok", Boom),
     StmtOutcome("ok", "ok", "int", 1, "ok", Boom),
     StmtOutcome("raise", "ok", "int", 1, "ok", Boom),
     StmtOutcome("ok", "raise", "int", 1, "ok", Boom),
     StmtOutcome("ok", "raise", "int", 1, "ok", <<>>),
     StmtOutcome("ok", "ok", "int", 1, "raise", Boom)}

LifeStmtOutcomes ==
    {StmtOutcome("ok", "ok", "int", 1, "ok", Boom),
     StmtOutcome("ok", "raise", "int", 1, "ok", Boom)}

OutSeqs(S, n) == [1..n -> S]

\* SQL blocks: sequences of at most MaxLen atoms with at most MaxStmts
\* statements
MaxStmts == 3
BlockAtoms == {"x", ";", " "}
Blocks == {b \in SeqsUpTo(BlockAtoms, MaxLen) : Len(Statements(b)) <= MaxStmts}
LifeBlocks == {<<>>, <<"x">>, <<"x", ";", " ", "x">>}

\* the statements handed to query
QuerySqls == {<<"x">>, <<" ", "x", ";">>, <<"x", " ", "LIMIT", " ", "1">>,
              <<"select", " ", "x">>}
LimitNums == {0, 1}

\* the statements handed to filter_sql: every text of at most MaxFilterLen
\* atoms, and the limiting constructs in both letter cases, bare and with
\* surrounding whitespace and a terminator
MaxFilterLen == 4
FilterAtoms == {"x", " ", ";", "limit", "STOP", NumAtom(1)}
LimitedSqls ==
    {<<"select", " ", "x", " ", "LIMIT", " ", NumAtom(1)>>,
     <<"select", " ", "top", " ", NumAtom(2), " ", "x">>,
     <<"SELECT", " ", "TOP", " ", NumAtom(1), " ", "x">>,
     <<"x", " ", "ROWNUM", "<=", NumAtom(1)>>,
     <<"x", " ", "rownum", " ", "<", " ", NumAtom(2)>>,
     <<"x", " ", "FETCH", " ", "FIRST", " ", NumAtom(1), " ", "ROWS", " ", "ONLY">>,
     <<"x", " ", "fetch", " ", "first", " ", NumAtom(2), " ", "rows", " ", "only">>,
     <<"select", " ", "x">>,
     <<"x", " ", "xLIMIT", " ", NumAtom(1)>>}
Padded(s) == {s, <<" ">> \o s \o <<" ">>, s \o <<";">>, s \o <<" ", ";">>}
FilterSqls == SeqsUpTo(FilterAtoms, MaxFilterLen) \cup UNION {Padded(s) : s \in LimitedSqls}
FilterLimits == (0 - 1)..MaxNum

\* the scenarios of a call that issues at most n catalog queries
CatalogRuns(n) ==
    {<<first>> \o rest : first \in CatalogOutcomes,
                         rest \in [1..(n - 1) -> CatalogOutcomes \ {"no connection"}]}

DescQueries  == 1 + Len(Rows)
MetasQueries == 1 + Len(Rows) * PerTable

\* schema and table names: sequences of characters, the quote among them
MaxName == 2
NameChars == {"a", "'"}
Names == SeqsUpTo(NameChars, MaxName) \ {<<>>}

\* the columns of a table in the catalog of the backend: name and type;
\* the empty name stands for a name that is empty or null
MaxCols == 2
ColumnNames == {"", "c1", "c2"}
ColumnCatalogs == SeqsUpTo([name : ColumnNames, type : {"INT"}], MaxCols)
DefaultCatalog == <<[name |-> "c1", type |-> "INT"]>>

\* the answer of the backend to SELECT C.NAME, C.TYPE$ and to SELECT C.NAME
\* over the columns of the catalog
NameTypeRows(catalog) ==
    [i \in 1..Len(catalog) |-> <<catalog[i].name, catalog[i].type>>]
NameRows(catalog) == [i \in 1..Len(catalog) |-> <<catalog[i].name>>]

\* the inputs of a single-query introspection call: every pair of names on
\* an undisturbed backend, and every catalog under every scenario
IntrospectInputs ==
    {[db_name |-> d, tb_name |-> t, catalog |-> DefaultCatalog,
      sc |-> DefaultScenario] : d \in Names, t \in Names}
    \cup {[db_name |-> <<"s">>, tb_name |-> <<"t">>, catalog |-> c, sc |-> sc] :
              c \in ColumnCatalogs, sc \in QueryScenarios}

\* the texts escape_string is given, and the result sets query_masking is
\* given: of a query that returned rows, returned nothing, or failed
EscapeValues == SeqsUpTo(NameChars, MaxName)
MaskingResults ==
    {[type |-> "ResultSet", full_sql |-> <<"x">>, rows |-> r, error |-> e] :
         r \in {<<>>, Rows}, e \in {None, Some(<<"Error: ">> \o Boom)}}
ThreadIds == 1..MaxNum
VariableNames == {"autocommit", "wait_timeout"}

(***************************************************************************)
(* The engine instance as a state machine                                  *)
(*                                                                         *)
(* ret records the last call: its name and inputs, the connection field    *)
(* and the live handles before it, what it returned or raised, and what    *)
(* it did to the backend (statements sent, cursors opened and closed).     *)
(***************************************************************************)
BlankRet ==
    [op |-> "new", raised |-> FALSE, kind |-> "", msg |-> <<>>, val |-> NoConn,
     res |-> BlankResult, review |-> BlankReview,
     sql |-> <<>>, limit_num |-> 0, close_conn |-> FALSE, sc |-> DefaultScenario,
     pre |-> NoConn, preLive |-> {}, preConnects |-> 0,
     acquired |-> NoConn, sent |-> <<>>, curOpened |-> 0, curClosed |-> 0,
     closeCalls |-> 0, out |-> <<>>, again |-> <<>>,
     scs |-> <<>>, queries |-> 0, queryErrors |-> 0,
     db_name |-> <<>>, tb_name |-> <<>>, catalog |-> <<>>,
     arg |-> <<>>, returned |-> Plain("NoneType", None),
     prev |-> [op |-> "none", raised |-> FALSE, val |-> NoConn, pre |-> NoConn,
               preConnects |-> 0, close_conn |-> FALSE, acquired |-> NoConn,
               closeCalls |-> 0, res |-> BlankResult, db_name |-> <<>>,
               tb_name |-> <<>>, catalog |-> <<>>]]

Init ==
    /\ engine \in Engines
    /\ conn = NoConn
    /\ live = {}
    /\ handles = 0
    /\ connects = 0
    /\ calls = 0
    /\ ret = BlankRet

SetWorld(w) ==
    /\ conn' = w.conn
    /\ live' = w.live
    /\ handles' = w.handles
    /\ connects' = w.connects

\* the record of a call named op that started in the current state
Called(op) ==
    [BlankRet EXCEPT !.op = op, !.pre = conn, !.preLive = live,
                     !.preConnects = connects,
                     !.prev = [op |-> ret.op, raised |-> ret.raised, val |-> ret.val,
                               pre |-> ret.pre, preConnects |-> ret.preConnects,
                               close_conn |-> ret.close_conn,
                               acquired |-> ret.acquired,
                               closeCalls |-> ret.closeCalls, res |-> ret.res,
                               db_name |-> ret.db_name, tb_name |-> ret.tb_name,
                               catalog |-> ret.catalog]]

\* the record of a call that went through the query or the batch executor
Ran(op, r) ==
    [Called(op) EXCEPT !.raised = r.raised, !.acquired = r.acquired,
                       !.sent = r.sent, !.curOpened = r.curOpened,
                       !.curClosed = r.curClosed, !.closeCalls = r.closeCalls]

\* the scenarios the engine can meet in its current state: connect is
\* called only when there is no connection
Meets(S) == {sc \in S : conn # NoConn => sc.connect = "ok"}

GetConnectionCall(outcome, msg) ==
    LET r == GetConnection(engine, World, outcome, msg)
    IN  /\ SetWorld(r.w)
        /\ ret' = [Called("get_connection") EXCEPT
                     !.raised = r.raised, !.kind = r.kind, !.msg = r.msg,
                     !.val = r.val,
                     !.sc = [DefaultScenario EXCEPT !.connect = outcome, !.msg = msg]]
        /\ calls' = calls + 1
        /\ UNCHANGED engine

QueryCall(sql, limit_num, close_conn, sc) ==
    LET r == Query(engine, World, sql, limit_num, close_conn, sc)
    IN  /\ SetWorld(r.w)
        /\ ret' = [Ran("query", r) EXCEPT
                     !.kind = r.kind, !.msg = r.msg, !.res = r.res,
                     !.sql = sql, !.limit_num = limit_num,
                     !.close_conn = close_conn, !.sc = sc]
        /\ calls' = calls + 1
        /\ UNCHANGED engine

ExecuteCall(sql, close_conn, sc) ==
    LET r == Execute(engine, World, sql, close_conn, sc)
    IN  /\ SetWorld(r.w)
        /\ ret' = [Ran("execute", r) EXCEPT
                     !.review = r.review, !.sql = sql,
                     !.close_conn = close_conn, !.sc = sc]
        /\ calls' = calls + 1
        /\ UNCHANGED engine

QueryCheckCall(sql, sc) ==
    LET r == DmQueryCheck(World, sql, sc)
    IN  /\ engine = "Dm"
        /\ SetWorld(r.w)
        /\ ret' = [Ran("query_check", r) EXCEPT !.res = r.res, !.sql = sql, !.sc = sc]
        /\ calls' = calls + 1
        /\ UNCHANGED engine

ExecuteCheckCall(sql, sc) ==
    LET r == DmExecuteCheck(World, sql, sc)
    IN  /\ engine = "Dm"
        /\ SetWorld(r.w)
        /\ ret' = [Ran("execute_check", r) EXCEPT
                     !.res = r.res, !.review = r.review, !.sql = sql, !.sc = sc]
        /\ calls' = calls + 1
        /\ UNCHANGED engine

GetAllDatabasesCall(sc) ==
    LET r == DmGetAllDatabases(World, sc)
    IN  /\ engine = "Dm"
        /\ SetWorld(r.w)
        /\ ret' = [Ran("get_all_databases", r) EXCEPT
                     !.res = r.res, !.sql = SchemasSql, !.close_conn = TRUE, !.sc = sc,
                     !.queries = 1,
                     !.queryErrors = IF r.res.error # None THEN 1 ELSE 0]
        /\ calls' = calls + 1
        /\ UNCHANGED engine

\* a call that issues several catalog queries
CatalogCall(op, returned, scs) ==
    /\ engine = "Dm"
    /\ conn # NoConn => scs[1] # "no connection"
    /\ \E r \in {returned} :
           /\ SetWorld(r.w)
           /\ ret' = [Ran(op, r) EXCEPT !.res = r.res, !.scs = scs,
                                        !.queries = r.queries,
                                        !.queryErrors = r.queryErrors]
    /\ calls' = calls + 1
    /\ UNCHANGED engine

GetTableDescDataCall(scs) ==
    CatalogCall("get_table_desc_data", DmGetTableDescData(World, scs), scs)

GetTablesMetasDataCall(scs) ==
    CatalogCall("get_tables_metas_data", DmGetTablesMetasData(World, scs), scs)

\* a call that issues one catalog query built from the names of a schema
\* and a table, on a backend that answers it from its catalog
IntrospectCall(op, returned, in, sql) ==
    /\ engine = "Dm"
    /\ conn # NoConn => in.sc.connect = "ok"
    /\ \E r \in {returned} :
           /\ SetWorld(r.w)
           /\ ret' = [Ran(op, r) EXCEPT
                        !.res = r.res, !.sql = sql, !.close_conn = TRUE,
                        !.sc = in.sc, !.queries = 1,
                        !.queryErrors = IF r.res.error # None THEN 1 ELSE 0,
                        !.db_name = in.db_name, !.tb_name = in.tb_name,
                        !.catalog = in.catalog]
    /\ calls' = calls + 1
    /\ UNCHANGED engine

GetAllTablesCall(in) ==
    IntrospectCall("get_all_tables",
                   DmGetAllTables(World, in.db_name, in.sc, NameRows(in.catalog)),
                   [in EXCEPT !.tb_name = <<>>], AllTablesSql(in.db_name))

GetAllColumnsByTbCall(in) ==
    IntrospectCall("get_all_columns_by_tb",
                   DmGetAllColumnsByTb(World, in.db_name, in.tb_name, in.sc,
                                       NameRows(in.catalog)),
                   in, AllColumnsSql(in.db_name, in.tb_name))

DescribeTableCall(in) ==
    IntrospectCall("describe_table",
                   DmDescribeTable(World, in.db_name, in.tb_name, in.sc,
                                   NameTypeRows(in.catalog)),
                   in, DescribeSql(in.db_name, in.tb_name))

GetTableIndexDataCall(in) ==
    IntrospectCall("get_table_index_data",
                   DmGetTableIndexData(World, in.db_name, in.tb_name, in.sc,
                                       NameTypeRows(in.catalog)),
                   in, IndexesSql(in.db_name, in.tb_name))

GetTableMetaDataCall(db_name, tb_name, scs, table) ==
    /\ engine = "Dm"
    /\ conn # NoConn => scs[1] # "no connection"
    /\ \E r \in {DmGetTableMetaData(World, db_name, tb_name, scs, table)} :
           /\ SetWorld(r.w)
           /\ ret' = [Ran("get_table_meta_data", r) EXCEPT
                        !.res = r.res, !.scs = scs, !.queries = r.queries,
                        !.queryErrors = r.queryErrors,
                        !.sql = TableInfoSql(db_name, tb_name),
                        !.db_name = db_name, !.tb_name = tb_name,
                        !.catalog = table]
    /\ calls' = calls + 1
    /\ UNCHANGED engine

\* a call of an operation that touches neither the connection nor the
\* backend
PlaceholderCall(op, arg, returned) ==
    /\ engine = "Dm"
    /\ ret' = [Called(op) EXCEPT !.arg = arg, !.returned = returned]
    /\ calls' = calls + 1
    /\ UNCHANGED <<engine, conn, live, handles, connects>>

\* filter_sql(sql, limit_num): the engine and the backend are left alone
FilterSqlCall(sql, limit_num) ==
    /\ ret' = [Called("filter_sql") EXCEPT
                 !.sql = sql, !.limit_num = limit_num,
                 !.out = FilterSql(engine, sql, limit_num)]
    /\ calls' = calls + 1
    /\ UNCHANGED <<engine, conn, live, handles, connects>>

\* filter_sql applied to the text the last filter_sql call returned
FilterSqlAgainCall(limit_num) ==
    /\ ret' = [ret EXCEPT !.op = "filter_sql_again",
                          !.again = FilterSql(engine, ret.out, limit_num)]
    /\ calls' = calls + 1
    /\ UNCHANGED <<engine, conn, live, handles, connects>>

\* the backend's part of an execute call on the statements of sql
ExecScenarios(S, sql) ==
    [connect : {"ok", "raise"}, outs : OutSeqs(S, Len(Statements(sql))),
     connClose : {"ok", "raise_open", "raise_closed"}, msg : BackendMsgs]

\* connect raising leaves the rest of the scenario unused
ExecIsNormal(sc, close_conn, S) ==
    /\ sc.connect = "raise" =>
           /\ sc.connClose = "ok"
           /\ \A i \in DOMAIN sc.outs : sc.outs[i] = CHOOSE o \in S : TRUE
    /\ ~close_conn => sc.connClose = "ok"
    /\ sc.connect = "ok" => sc.msg = Boom

(***************************************************************************)
(* Spec: one engine instance used for up to MaxCalls calls                 *)
(***************************************************************************)
DoGetConnection ==
    /\ calls < MaxCalls
    /\ \E outcome \in {"ok", "raise"}, msg \in BackendMsgs :
           GetConnectionCall(outcome, msg)

DoQuery ==
    /\ calls < MaxCalls
    /\ \E close_conn \in BOOLEAN, sc \in Meets(LifeScenarios) :
           QueryCall(<<"x">>, 0, close_conn, sc)

DoExecute ==
    /\ calls < MaxCalls
    /\ \E sql \in LifeBlocks, close_conn \in BOOLEAN :
           \E sc \in Meets(ExecScenarios(LifeStmtOutcomes, sql)) :
               /\ ExecIsNormal(sc, close_conn, LifeStmtOutcomes)
               /\ ExecuteCall(sql, close_conn, sc)

DoQueryCheck ==
    /\ calls < MaxCalls
    /\ \E sc \in Meets(LifeScenarios) : QueryCheckCall(<<"x">>, sc)

DoGetAllDatabases ==
    /\ calls < MaxCalls
    /\ \E sc \in Meets(LifeScenarios) : GetAllDatabasesCall(sc)

Next ==
    \/ DoGetConnection
    \/ DoQuery
    \/ DoExecute
    \/ DoQueryCheck
    \/ DoGetAllDatabases

Spec == Init /\ [][Next]_vars

(***************************************************************************)
(* SpecQuery: one query call, on a new engine or after get_connection,     *)
(* under every scenario                                                    *)
(***************************************************************************)
ConnectFirst ==
    /\ calls = 0
    /\ \E outcome \in {"ok", "raise"} : GetConnectionCall(outcome, Boom)

QueryOnce ==
    /\ ret.op # "query"
    /\ \E sql \in QuerySqls, limit_num \in LimitNums, close_conn \in BOOLEAN,
          sc \in Meets(QueryScenarios) :
           QueryCall(sql, limit_num, close_conn, sc)

QueryNext == ConnectFirst \/ QueryOnce

SpecQuery == Init /\ [][QueryNext]_vars

(***************************************************************************)
(* SpecExec: one execute call of DmEngine, on a new engine or after        *)
(* get_connection, for every block and every scenario                      *)
(***************************************************************************)
ExecInit == Init /\ engine = "Dm"

ExecuteOnce ==
    /\ ret.op # "execute"
    /\ \E sql \in Blocks, close_conn \in BOOLEAN :
           \E sc \in Meets(ExecScenarios(StmtOutcomes, sql)) :
               /\ ExecIsNormal(sc, close_conn, StmtOutcomes)
               /\ ExecuteCall(sql, close_conn, sc)

ExecNext == ConnectFirst \/ ExecuteOnce

SpecExec == ExecInit /\ [][ExecNext]_vars

(***************************************************************************)
(* SpecFilter: filter_sql applied to every statement text and limit, and   *)
(* then once more to its own output                                        *)
(***************************************************************************)
FilterOnce ==
    /\ ret.op = "new"
    /\ \E sql \in FilterSqls, limit_num \in FilterLimits : FilterSqlCall(sql, limit_num)

FilterAgain ==
    /\ ret.op = "filter_sql"
    /\ \E limit_num \in FilterLimits : FilterSqlAgainCall(limit_num)

FilterNext == FilterOnce \/ FilterAgain

SpecFilter == Init /\ [][FilterNext]_vars

(***************************************************************************)
(* SpecCheck: one pre-check of DmEngine, query_check or execute_check, on  *)
(* a new engine or after get_connection, under every scenario              *)
(***************************************************************************)
QueryCheckOnce ==
    /\ ret.op \in {"new", "get_connection"}
    /\ \E sql \in QuerySqls, sc \in Meets(QueryScenarios) : QueryCheckCall(sql, sc)

ExecuteCheckOnce ==
    /\ ret.op \in {"new", "get_connection"}
    /\ \E sql \in QuerySqls, sc \in Meets(QueryScenarios) : ExecuteCheckCall(sql, sc)

CheckNext == ConnectFirst \/ QueryCheckOnce \/ ExecuteCheckOnce

SpecCheck == ExecInit /\ [][CheckNext]_vars

(***************************************************************************)
(* SpecPlaceholders: up to MaxCalls calls of the operations DmEngine does  *)
(* not support                                                             *)
(***************************************************************************)
DoEscapeString ==
    \E value \in EscapeValues :
        PlaceholderCall("escape_string", value, DmEscapeString(value))

PlaceholdersNext ==
    /\ calls < MaxCalls
    /\ \/ DoEscapeString
       \/ PlaceholderCall("auto_backup", <<>>, DmAutoBackup)
       \/ PlaceholderCall("seconds_behind_master", <<>>, DmSecondsBehindMaster)
       \/ \E command_type \in {"All", "Not Sleep"} :
              PlaceholderCall("processlist", command_type,
                              DmProcesslist(command_type))
       \/ \E thread_id \in ThreadIds :
              PlaceholderCall("kill_connection", thread_id,
                              DmKillConnection(thread_id))
       \/ \E db_name \in Names :
              PlaceholderCall("get_group_tables_by_db", db_name,
                              DmGetGroupTablesByDb(db_name))
       \/ PlaceholderCall("get_all_databases_summary", <<>>,
                          DmGetAllDatabasesSummary)
       \/ PlaceholderCall("get_instance_users_summary", <<>>,
                          DmGetInstanceUsersSummary)
       \/ PlaceholderCall("create_instance_user", <<>>, DmCreateInstanceUser)
       \/ PlaceholderCall("drop_instance_user", <<>>, DmDropInstanceUser)
       \/ PlaceholderCall("reset_instance_user_pwd", <<>>, DmResetInstanceUserPwd)
       \/ \E resultset \in MaskingResults :
              PlaceholderCall("query_masking", resultset,
                              DmQueryMasking(<<"s">>, <<"x">>, resultset))
       \/ \E workflow \in LifeBlocks :
              PlaceholderCall("get_rollback", workflow, DmGetRollback(workflow))
       \/ PlaceholderCall("get_execute_percentage", <<>>, DmGetExecutePercentage)
       \/ PlaceholderCall("get_variables", <<>>, DmGetVariables(<<>>))
       \/ \E variable_name \in VariableNames :
              PlaceholderCall("set_variable", variable_name,
                              DmSetVariable(variable_name, "1"))

SpecPlaceholders == ExecInit /\ [][PlaceholdersNext]_vars

(***************************************************************************)
(* SpecCatalog: one introspection call of DmEngine, on a new engine or     *)
(* after get_connection, under every outcome of its catalog queries        *)
(***************************************************************************)
CatalogFresh == ret.op \in {"new", "get_connection"}

SchemasOnce ==
    /\ CatalogFresh
    /\ \E sc \in Meets(QueryScenarios) : GetAllDatabasesCall(sc)

TableDescOnce ==
    /\ CatalogFresh
    /\ \E scs \in CatalogRuns(DescQueries) : GetTableDescDataCall(scs)

TablesMetasOnce ==
    /\ CatalogFresh
    /\ \E scs \in CatalogRuns(MetasQueries) : GetTablesMetasDataCall(scs)

AllTablesOnce ==
    /\ CatalogFresh
    /\ \E in \in IntrospectInputs : GetAllTablesCall(in)

AllColumnsOnce ==
    /\ CatalogFresh
    /\ \E in \in IntrospectInputs : GetAllColumnsByTbCall(in)

DescribeOnce ==
    /\ CatalogFresh
    /\ \E in \in IntrospectInputs : DescribeTableCall(in)

\* get_all_columns_by_tb on the table describe_table was just called on,
\* with the catalog unchanged
ColumnsAfterDescribe ==
    /\ ret.op = "describe_table"
    /\ \E sc \in {DefaultScenario, CatalogScenario("fails")} :
           GetAllColumnsByTbCall([db_name |-> ret.db_name, tb_name |-> ret.tb_name,
                                  catalog |-> ret.catalog, sc |-> sc])

TableIndexOnce ==
    /\ CatalogFresh
    /\ \E in \in IntrospectInputs : GetTableIndexDataCall(in)

TableMetaOnce ==
    /\ CatalogFresh
    /\ \E db_name \in Names, tb_name \in Names, scs \in CatalogRuns(2),
          table \in {TableInfoRows, ShortInfoRows} :
           GetTableMetaDataCall(db_name, tb_name, scs, table)

CatalogNext ==
    \/ ConnectFirst \/ SchemasOnce \/ TableDescOnce \/ TablesMetasOnce
    \/ AllTablesOnce \/ AllColumnsOnce \/ DescribeOnce \/ ColumnsAfterDescribe
    \/ TableIndexOnce \/ TableMetaOnce

SpecCatalog == ExecInit /\ [][CatalogNext]_vars

(***************************************************************************)
(* SpecNames: one call that is given the name of a schema or of a table:   *)
(* an introspection call that writes it into its catalog statement, or     *)
(* escape_string                                                           *)
(***************************************************************************)
EscapeOnce == CatalogFresh /\ DoEscapeString

NamesNext ==
    \/ ConnectFirst \/ AllTablesOnce \/ AllColumnsOnce \/ DescribeOnce
    \/ TableIndexOnce \/ TableMetaOnce \/ EscapeOnce

SpecNames == ExecInit /\ [][NamesNext]_vars

(***************************************************************************)
(* Properties                                                              *)
(***************************************************************************)
\* the text ends with the backend's message
CarriesMsg(text, m) ==
    Len(text) >= Len(m) /\ SubSeq(text, Len(text) - Len(m) + 1, Len(text)) = m

\* C1: two successive get_connection calls with no close in between return
\* the identical handle, and connect is invoked once across both calls (not
\* at all when the engine already held a connection before the first).
C1_AcquireIdempotent ==
    (ret.op = "get_connection" /\ ret.prev.op = "get_connection" /\ ~ret.prev.raised)
        => /\ ~ret.raised
           /\ ret.val # NoConn
           /\ ret.val = ret.prev.val
           /\ conn = ret.val
           /\ connects = ret.preConnects
           /\ connects - ret.prev.preConnects
                  = IF ret.prev.pre = NoConn THEN 1 ELSE 0

C1_Witness ==
    /\ ret.op = "get_connection" /\ ret.prev.op = "get_connection"
    /\ ~ret.prev.raised /\ ret.prev.pre = NoConn
    /\ ret.val = 1 /\ connects = 1 /\ calls = 2

\* C2: when connect fails inside get_connection the failure reaches the
\* caller with the backend's message, the connection field is null and no
\* handle was created, and the next get_connection invokes connect again.
C2_ConnectFailure ==
    /\ (ret.op = "get_connection" /\ ret.raised)
           => /\ CarriesMsg(ret.msg, ret.sc.msg)
              /\ conn = NoConn
              /\ live = ret.preLive
              /\ connects = ret.preConnects + 1
    /\ (ret.op = "get_connection" /\ ret.prev.op = "get_connection" /\ ret.prev.raised)
           => connects = ret.preConnects + 1

C2_Witness ==
    /\ ret.op = "get_connection" /\ ret.prev.op = "get_connection"
    /\ ret.prev.raised /\ ~ret.raised
    /\ connects = 2 /\ conn = 1 /\ live = {1}

\* C3: after query or execute with close_conn = true on an acquired
\* connection, the handle is closed and the connection field is null, also
\* when close() itself raised.
C3_CloseConnReleases ==
    (engine = "Dm" /\ ret.op \in {"query", "execute"} /\ ret.close_conn
                   /\ ret.acquired # NoConn)
        => (ret.acquired \notin live /\ conn = NoConn)

\* C4: the instance owns at most one live connection, and every live
\* connection is the one its connection field references.
C4_OneLiveConnection ==
    /\ Cardinality(live) <= 1
    /\ \A h \in live : h = conn

C4_Witness ==
    /\ handles = 2 /\ live = {2} /\ conn = 2
    /\ ret.op \in {"query", "execute", "query_check", "get_all_databases"}

\* C5: a result of query with a non-null error has no rows and no columns.
C5_ErrorMeansEmpty ==
    (ret.op = "query" /\ ~ret.raised /\ ret.res.error # None)
        => (ret.res.rows = <<>> /\ ret.res.column_list = <<>>)

\* C6: query never raises to its caller: whatever fails while the
\* connection is acquired or the statement is run, the call returns, and
\* when the connection acquisition failed it returns an error result with
\* no rows and no columns.
C6_QueryNeverRaises ==
    (ret.op = "query" /\ ret.sc.curClose = "ok" /\ ret.sc.connClose = "ok")
        => /\ ~ret.raised
           /\ (ret.pre = NoConn /\ ret.sc.connect = "raise")
                  => /\ ret.res.error # None
                     /\ ret.res.rows = <<>>
                     /\ ret.res.column_list = <<>>

\* C7: every cursor opened by query or execute is closed before the call
\* returns.
C7_CursorsClosed ==
    ret.op \in {"query", "execute"} => ret.curClosed = ret.curOpened

\* the non-empty statements obtained by splitting a block
SplitStatements(sql) == SelectSeq(SqlparseSplit(sql), NotEmptyText)

\* C8 as stated: for every block the number of review records equals the
\* number of non-empty statements of the block.
C8_RecordPerStatement ==
    ret.op = "execute" => Len(ret.review.rows) = Len(SplitStatements(ret.sql))

\* C8 amended: when the connection is acquired the number of review records
\* equals the number of non-empty statements of the block; when it cannot
\* be acquired there is exactly one review record.
C8_RecordPerStatementIfConnected ==
    ret.op = "execute"
        => Len(ret.review.rows) =
               IF ret.acquired # NoConn THEN Len(SplitStatements(ret.sql)) ELSE 1

C8_Witness ==
    /\ ret.op = "execute" /\ ret.acquired # NoConn
    /\ Len(SplitStatements(ret.sql)) = 3 /\ Len(ret.review.rows) = 3
    /\ ret.sql # Strip(ret.sql)

\* C9: error_count equals the number of review records of severity error.
C9_ErrorCountMatches ==
    ret.op = "execute" => ret.review.error_count = ErrorRows(ret.review.rows)

\* the backend made statement i of the last execute call fail
StmtFailed(i) ==
    LET so == ret.sc.outs[i]
    IN  so.cursor = "raise" \/ so.execute = "raise" \/ so.rcKind = "raise"
        \/ so.close = "raise"

\* the statements of the last execute call for which a cursor was opened
RECURSIVE SentOf(_, _)
SentOf(st, i) ==
    IF i > Len(st) THEN <<>>
    ELSE (IF ret.sc.outs[i].cursor = "ok" THEN <<st[i]>> ELSE <<>>) \o SentOf(st, i + 1)

\* C10: execute does not stop at a failing statement: every statement gets
\* its record, of severity error with the failure message when it failed
\* and of severity ok when it succeeded, error_count counts the failures,
\* and every statement whose cursor opened is sent to the backend.
C10_NoShortCircuit ==
    (ret.op = "execute" /\ ret.acquired # NoConn)
        => LET st   == SplitStatements(ret.sql)
               rows == ret.review.rows
               failed == {i \in 1..Len(st) : StmtFailed(i)}
           IN  /\ Len(rows) = Len(st)
               /\ \A i \in 1..Len(st) :
                      IF i \in failed
                      THEN rows[i].errlevel = 2 /\ rows[i].errormessage = ret.sc.outs[i].msg
                      ELSE rows[i].errlevel = 0 /\ rows[i].errormessage = <<>>
               /\ failed # {} => ret.review.error_count = Cardinality(failed)
               /\ ret.sent = SentOf(st, 1)

C10_Witness ==
    /\ ret.op = "execute" /\ ret.acquired # NoConn
    /\ Len(ret.review.rows) = 3
    /\ ret.sc.outs[1].execute = "ok" /\ ret.sc.outs[2].execute = "raise"
    /\ ret.sc.outs[3].execute = "ok"
    /\ ret.review.rows[1].errlevel = 0
    /\ ret.review.rows[2].errlevel = 2 /\ ret.review.rows[2].errormessage = Boom
    /\ ret.review.rows[3].errlevel = 0
    /\ ret.review.error_count = 1
    /\ Len(ret.sent) = 3

\* C11: within one execute call the statements are sent to the backend in
\* the order they were split from the block, each statement whose cursor
\* opened exactly once (all of them when every cursor opens), and record
\* number i has sequence id i and carries the text and the outcome of
\* statement number i.
C11_StatementsInOrder ==
    (ret.op = "execute" /\ ret.acquired # NoConn)
        => LET st   == SplitStatements(ret.sql)
               rows == ret.review.rows
           IN  /\ DOMAIN rows = DOMAIN st
               /\ \A i \in DOMAIN st :
                      /\ rows[i].id = i
                      /\ rows[i].sql = st[i]
                      /\ (rows[i].errlevel = 2) = StmtFailed(i)
                      /\ (rows[i].stagestatus = "Execute Successfully") = ~StmtFailed(i)
               /\ ret.sent = SentOf(st, 1)
               /\ (\A i \in DOMAIN st : ret.sc.outs[i].cursor = "ok") => ret.sent = st

C11_Witness ==
    /\ ret.op = "execute" /\ ret.acquired # NoConn
    /\ ret.sent = << <<"x", ";">>, <<";">>, <<"x">> >>
    /\ ret.review.rows[1].id = 1 /\ ret.review.rows[1].sql = <<"x", ";">>
    /\ ret.review.rows[2].id = 2 /\ ret.review.rows[2].errlevel = 2
    /\ ret.review.rows[3].id = 3 /\ ret.review.rows[3].sql = <<"x">>
    /\ ret.review.rows[3].errlevel = 0

C13_EmptyBlockIsNoFailure ==
    (ret.op = "execute" /\ IsBlank(ret.sql))
        => /\ ret.review.rows = <<>>
           /\ ret.review.error_count = 0
           /\ ret.review.error = None
           /\ ret.curOpened = 0

\* C14: in every execute call in which at least one statement was sent to
\* the backend the block-level error of the returned ReviewSet is null.
C14_BlockErrorOnlyBeforeStatements ==
    (ret.op = "execute" /\ ret.sent # <<>>) => ret.review.error = None

\* C15: every review record of severity error has a non-empty error
\* message, also when the text of the backend's exception is empty.
C15_ErrorHasMessage ==
    ret.op = "execute"
        => \A i \in DOMAIN ret.review.rows :
               ret.review.rows[i].errlevel = 2
                   => ret.review.rows[i].errormessage # <<>>

\* a limiting keyword as a whole token, compared without case
TokenUpper(a) ==
    CASE a \in {"LIMIT", "limit"}   -> "LIMIT"
      [] a \in {"TOP", "top"}       -> "TOP"
      [] a \in {"ROWNUM", "rownum"} -> "ROWNUM"
      [] a \in {"FETCH", "fetch"}   -> "FETCH"
      [] a \in {"FIRST", "first"}   -> "FIRST"
      [] a \in {"ROWS", "rows"}     -> "ROWS"
      [] a \in {"ONLY", "only"}     -> "ONLY"
      [] OTHER                      -> ""

\* position i is outside the text or holds a token separator
AtBoundary(s, i) == i < 1 \/ i > Len(s) \/ s[i] \in {" ", ";"}

\* a number that is a whole token at position j
NumberAt(s, j) == j >= 1 /\ j <= Len(s) /\ s[j] \in DigitAtoms /\ AtBoundary(s, j + 1)

\* the token at position j is the keyword kw
KeywordAt(s, j, kw) == j >= 1 /\ j <= Len(s) /\ TokenUpper(s[j]) = kw

\* a limiting construct (LIMIT n, TOP n, SELECT TOP n, ROWNUM < n,
\* ROWNUM <= n, FETCH FIRST n ROWS ONLY) made of whole tokens starts at i
ConstructAt(s, i) ==
    /\ AtBoundary(s, i - 1)
    /\ \/ /\ TokenUpper(s[i]) \in {"LIMIT", "TOP"}
          /\ NumberAt(s, Spaces1(s, i + 1))
       \/ /\ TokenUpper(s[i]) = "ROWNUM"
          /\ LET j == SkipSpaces(s, i + 1)
             IN  /\ j <= Len(s) /\ s[j] \in {"<", "<="}
                 /\ NumberAt(s, SkipSpaces(s, j + 1))
       \/ /\ TokenUpper(s[i]) = "FETCH"
          /\ LET a == Spaces1(s, i + 1)
                 b == IF a = 0 THEN 0 ELSE Spaces1(s, a + 1)
                 c == IF b = 0 THEN 0 ELSE Spaces1(s, b + 1)
                 d == IF c = 0 THEN 0 ELSE Spaces1(s, c + 1)
             IN  /\ KeywordAt(s, a, "FIRST") /\ NumberAt(s, b)
                 /\ KeywordAt(s, c, "ROWS") /\ KeywordAt(s, d, "ONLY")
                 /\ AtBoundary(s, d + 1)

ConstructsOf(s) == {i \in 1..Len(s) : ConstructAt(s, i)}
ContainsLimit(s) == ConstructsOf(s) # {}

\* the statement without surrounding whitespace and without one trailing
\* statement terminator
StatementBody(sql) ==
    LET t == Strip(sql)
    IN  IF EndsWith(t, ";") THEN Strip(SubSeq(t, 1, Len(t) - 1)) ELSE t

\* C16: for every statement text, surrounding whitespace and a trailing
\* semicolon included, and every limit_num <= 0, filter_sql returns exactly
\* the text it was given.
C16_NoOpWithoutLimit ==
    (engine = "Dm" /\ ret.op = "filter_sql" /\ ret.limit_num <= 0)
        => ret.out = ret.sql

\* C17: a statement that contains a limiting construct, in any letter case,
\* is returned unchanged for every limit_num, the output has no more
\* limiting clauses than the statement had, and applying filter_sql to its
\* own output changes nothing.
C17_ExistingLimitKept ==
    (engine = "Dm" /\ ret.op \in {"filter_sql", "filter_sql_again"})
        => /\ ContainsLimit(ret.sql)
                  => /\ ret.out = ret.sql
                     /\ Cardinality(ConstructsOf(ret.out))
                            = Cardinality(ConstructsOf(ret.sql))
           /\ ~ContainsLimit(ret.sql) => Cardinality(ConstructsOf(ret.out)) <= 1
           /\ (ret.op = "filter_sql_again" /\ ret.limit_num > 0) => ret.again = ret.out

\* C18: for every statement with no limiting construct and every
\* limit_num > 0, filter_sql returns the statement, one trailing statement
\* terminator removed, followed by " FETCH FIRST <limit_num> ROWS ONLY".
C18_LimitAppended ==
    (engine = "Dm" /\ ret.op = "filter_sql" /\ ret.limit_num > 0
                   /\ ~ContainsLimit(ret.sql))
        => ret.out = StatementBody(ret.sql) \o FetchFirstClause(ret.limit_num)

\* C19: for every query call with limit_num > 0 the text sent to the
\* backend's execute is filter_sql(sql, limit_num).
C19_PaginationBeforeExecute ==
    (ret.op = "query" /\ ret.limit_num > 0 /\ ret.sent # <<>>)
        => ret.sent = <<FilterSql(engine, ret.sql, ret.limit_num)>>

CatalogOps == {"get_all_databases", "get_table_desc_data", "get_tables_metas_data"}

\* the metadata an introspection call returned
CatalogData(r) ==
    IF r.op = "get_table_desc_data" THEN r.res.rows ELSE r.res.data

\* C20: when one of the catalog queries an introspection call issues fails,
\* the first or a later one, the call returns, with a non-null error and
\* no data.
C20_FailedQueryMeansError ==
    (ret.op \in CatalogOps /\ ret.queryErrors > 0)
        => /\ ~ret.raised
           /\ ret.res.error # None
           /\ CatalogData(ret) = <<>>

IntrospectOps ==
    CatalogOps \cup {"get_all_tables", "get_all_columns_by_tb", "describe_table",
                     "get_table_index_data", "get_table_meta_data"}

\* the metadata an introspection call returned, under 'data' or 'rows'
IntrospectData(r) ==
    IF r.op \in {"get_table_desc_data", "get_table_index_data", "get_table_meta_data"}
    THEN r.res.rows ELSE r.res.data

\* C21: whenever an introspection call of DmEngine returns a non-null
\* error, the data (or rows) it returns is empty: no metadata comes with an
\* error.
C21_ErrorMeansNoData ==
    (ret.op \in IntrospectOps /\ ret.res.error # None)
        => IntrospectData(ret) = <<>>

\* describe_table returned an error although the catalog query had fetched
\* the rows of a non-empty table before it failed
C21_Witness ==
    /\ ret.op = "describe_table"
    /\ ret.res.error # None
    /\ ret.res.data = <<>>
    /\ ret.catalog # <<>>
    /\ ret.sc.fetch = "rows" /\ ret.sc.rcKind = "raise"
    /\ ret.curOpened = 1

\* C22: when describe_table and then get_all_columns_by_tb are called on
\* the same schema and table with the catalog unchanged, and both succeed,
\* the set of column names of the description equals the set of names
\* get_all_columns_by_tb returns, whatever the catalog rows are, rows with
\* an empty or null name included.
C22_SameColumnNames ==
    (/\ ret.op = "get_all_columns_by_tb" /\ ret.prev.op = "describe_table"
     /\ ret.db_name = ret.prev.db_name /\ ret.tb_name = ret.prev.tb_name
     /\ ret.catalog = ret.prev.catalog
     /\ ret.res.error = None /\ ret.prev.res.error = None)
        => {ret.res.data[i] : i \in 1..Len(ret.res.data)}
               = {ret.prev.res.data[i].name : i \in 1..Len(ret.prev.res.data)}

\* the pre-check acquired a connection and opened a cursor on it
CheckReached == ret.acquired # NoConn /\ ret.curOpened = 1

\* the pre-check reported success
CheckOk == ret.res.status = 0 /\ ret.res.error = None

\* C23 (as stated): query_check never sends the statement and never
\* raises; it reports success (status 0, error null) exactly when the
\* connection acquisition and the cursor open both succeed, and otherwise
\* status 1 with a message.
C23_PreCheckAsStated ==
    ret.op = "query_check"
        => /\ ~ret.raised
           /\ ret.sent = <<>>
           /\ CheckOk <=> CheckReached
           /\ ~CheckOk => (ret.res.status = 1 /\ ret.res.msg # <<>>
                           /\ ret.res.error = Some(ret.res.msg))

\* C23: query_check never sends the statement and never raises; it
\* reports success (status 0, error null) exactly when the connection
\* acquisition, the cursor open and the cursor close all succeed, and
\* otherwise status 1 with a message.
C23_PreCheck ==
    ret.op = "query_check"
        => /\ ~ret.raised
           /\ ret.sent = <<>>
           /\ CheckOk <=> (CheckReached /\ ret.sc.curClose = "ok")
           /\ ~CheckOk => (ret.res.status = 1 /\ ret.res.msg # <<>>
                           /\ ret.res.error = Some(ret.res.msg))

\* a pre-check that reached its cursor and failed on closing it
C23_Witness ==
    /\ ret.op = "query_check"
    /\ CheckReached
    /\ ret.sc.curClose = "raise"
    /\ ret.res.status = 1
    /\ ret.sql # <<>>

\* C26: execute_check returns a ReviewSet whose full_sql is the input; when
\* the pre-check reports failure (status 1) it has error_count 1 and
\* exactly one record, carrying the full sql and the pre-check's message;
\* when the pre-check reports success it has error_count 0 and no record.
C26_CheckToReview ==
    ret.op = "execute_check"
        => /\ ret.review.full_sql = ret.sql
           /\ ret.res.status = 1
                  => /\ ret.review.error_count = 1
                     /\ Len(ret.review.rows) = 1
                     /\ ret.review.rows[1].sql = ret.sql
                     /\ ret.review.rows[1].errormessage = ret.res.msg
           /\ ret.res.status = 0
                  => /\ ret.review.error_count = 0
                     /\ ret.review.rows = <<>>
           /\ ret.res.status \in {0, 1}

\* a failed pre-check of a statement, turned into one review record
C26_Witness ==
    /\ ret.op = "execute_check"
    /\ ret.res.status = 1
    /\ ret.sql = <<"select", " ", "x">>
    /\ Len(ret.review.rows) = 1
    /\ ret.review.rows[1].errormessage = <<"Syntax check failed: ">> \o Boom

PlaceholderOps ==
    {"escape_string", "auto_backup", "seconds_behind_master", "processlist",
     "kill_connection", "get_group_tables_by_db", "get_all_databases_summary",
     "get_instance_users_summary", "create_instance_user", "drop_instance_user",
     "reset_instance_user_pwd", "query_masking", "get_rollback",
     "get_execute_percentage", "get_variables", "set_variable"}

\* the returned value is an error outcome
Signalled(v) == v.type = "ResultSet" /\ v.error # None

\* C24: every operation DmEngine does not support signals that in the
\* value it returns, as an error outcome; none returns a success-shaped or
\* passed-through value.
C24_UnsupportedIsSignalled ==
    ret.op \in PlaceholderOps => Signalled(ret.returned)

\* reading a quoted literal as the backend does, from the character after
\* its opening quote: two quotes in a row stand for one quote of the
\* content, a single quote ends the literal
RECURSIVE ReadLiteral(_, _, _)
ReadLiteral(s, i, content) ==
    IF i > Len(s) THEN [closed |-> FALSE, content |-> content, next |-> i]
    ELSE IF s[i] = "'" /\ i < Len(s) /\ s[i + 1] = "'"
    THEN ReadLiteral(s, i + 2, Append(content, "'"))
    ELSE IF s[i] = "'" THEN [closed |-> TRUE, content |-> content, next |-> i + 1]
    ELSE ReadLiteral(s, i + 1, Append(content, s[i]))

\* the contents of the quoted literals of a statement, in order; a literal
\* left open reads as None
RECURSIVE LiteralsFrom(_, _)
LiteralsFrom(s, i) ==
    IF i > Len(s) THEN <<>>
    ELSE IF s[i] = "'"
    THEN LET l == ReadLiteral(s, i + 1, <<>>)
         IN  IF l.closed THEN <<Some(l.content)>> \o LiteralsFrom(s, l.next)
             ELSE <<None>>
    ELSE LiteralsFrom(s, i + 1)
Literals(s) == LiteralsFrom(s, 1)

\* the names an introspection call writes into its statement, in the order
\* of the literals
NamesWritten(r) ==
    IF r.op = "get_all_tables" THEN <<Some(r.db_name)>>
    ELSE IF r.op = "get_table_meta_data" THEN <<Some(r.db_name), Some(r.tb_name)>>
    ELSE <<Some(r.tb_name), Some(r.db_name)>>

NamedOps ==
    {"get_all_tables", "get_all_columns_by_tb", "describe_table",
     "get_table_index_data", "get_table_meta_data"}

\* C25: the quoted literals of the catalog statement an introspection call
\* generates read back as exactly the schema and table names it was given,
\* so every quote of a name is doubled and no name ends its literal; and
\* escape_string doubles the quotes of its value in the same way, so that
\* its result between quotes reads back as the value.
C25_QuotesDoubled ==
    /\ ret.op \in NamedOps => Literals(ret.sql) = NamesWritten(ret)
    /\ ret.op = "escape_string"
           => /\ ret.returned.type = "str"
              /\ Literals(Quoted(ret.returned.value)) = <<Some(ret.arg)>>

\* the last call, or the one before it, was query or execute with
\* close_conn = false on a connection it acquired
KeptOpen(r) ==
    r.op \in {"query", "execute"} /\ ~r.close_conn /\ r.acquired # NoConn

\* C27: after query or execute returns with close_conn = false, whether
\* the statement succeeded or failed, the connection field holds the handle
\* the call ran on, no close was issued and the handle is as open as it was
\* during the call; the next get_connection returns that handle without
\* connecting.
C27_KeptOpenIsReused ==
    /\ KeptOpen(ret)
           => /\ conn = ret.acquired
              /\ ret.closeCalls = 0
              /\ live = ret.preLive \cup (IF ret.pre = NoConn THEN {ret.acquired}
                                         ELSE {})
    /\ (ret.op = "get_connection" /\ KeptOpen(ret.prev))
           => /\ ~ret.raised
              /\ ret.val = ret.prev.acquired
              /\ conn = ret.prev.acquired
              /\ connects = ret.preConnects

\* a failed statement with close_conn = false on a new engine, followed by
\* get_connection
C27_Witness ==
    /\ ret.op = "get_connection"
    /\ ret.prev.op = "query" /\ KeptOpen(ret.prev)
    /\ ret.prev.pre = NoConn
    /\ ret.prev.res.error # None
    /\ ret.val = ret.prev.acquired
    /\ ret.val \in live

MultiQueryOps == {"get_tables_metas_data", "get_table_meta_data", "get_table_desc_data"}

\* C28: a multi-query introspection call releases the connection before it
\* returns, on every exit path: the connection field is cleared and the
\* handle the call ran on is closed; and when its first catalog query
\* returned an error, the engine's close was called exactly once.
C28_ReleasedOnEveryPath ==
    ret.op \in MultiQueryOps
        => /\ conn = NoConn
           /\ ret.acquired # NoConn => ret.acquired \notin live
           /\ ret.scs[1] \in {"fails", "no connection"} => ret.closeCalls = 1

\* the token at position i is a longer word that ends in a limiting
\* keyword, and a number follows it
EmbeddedAt(s, i) ==
    /\ s[i] \in {"xLIMIT", "STOP"}
    /\ NumberAt(s, Spaces1(s, i + 1))

\* C29: a statement in which a limiting keyword followed by a number occurs
\* only inside a longer word has no limiting construct for filter_sql: with
\* limit_num > 0 the limiting clause is appended to it.
C29_WholeTokenMatch ==
    (/\ engine = "Dm" /\ ret.op = "filter_sql" /\ ret.limit_num > 0
     /\ ~ContainsLimit(ret.sql)
     /\ \E i \in 1..Len(ret.sql) : EmbeddedAt(ret.sql, i))
        => /\ ret.out = StatementBody(ret.sql) \o FetchFirstClause(ret.limit_num)
           /\ ContainsLimit(ret.out)

\* C30: the affected-row count of a successful query is the rowcount the
\* backend reports when that is not negative, and the number of fetched
\* rows otherwise; it is never negative.
C30_AffectedRows ==
    (ret.op = "query" /\ ~ret.raised /\ ret.res.error = None)
        => /\ ret.res.effect_row = (IF ret.sc.rcVal >= 0 THEN ret.sc.rcVal
                                    ELSE Len(ret.res.rows))
           /\ ret.res.effect_row >= 0

====
